---- MODULE Spec2Model ----
(***************************************************************************)
(* Model of the retrieval-augmented answer engine of piscinik              *)
(* (src/rag_system.py, class PiscinikRAG).                                 *)
(*                                                                         *)
(* The engine is one shared object driven by asyncio tasks.  A task only   *)
(* yields at a real suspension point: the embedding request, the pacing    *)
(* sleep and the generation request.  Everything between two suspension    *)
(* points runs atomically, so each action below is "from one await to the  *)
(* next".  Awaiting initialize(), _load_existing() or _create_embeddings() *)
(* does not yield by itself.                                               *)
(*                                                                         *)
(* Texts (chunks and queries) are small integers.  An embedding vector is  *)
(* a direction on a circle cut in 12 steps of 30 degrees together with a   *)
(* magnitude; similarity scores are inner products scaled by 100.          *)
(***************************************************************************)
EXTENDS Integers, Sequences, FiniteSets, TLC

(* ---------------------------- bounds ---------------------------------- *)
\* number of concurrent asyncio tasks calling the shared engine
NumTasks == 2
\* number of calls (search or get_answer) issued in one run, all tasks together
MaxCalls == 2
\* largest of the short corpora (rows of piscinik_knowledge.csv) drawn in Init
MaxChunks == 3
\* entries stamped in one session (log_action calls and receptionist entries)
MaxOps == 12
\* log_action calls in one session
MaxLogs == 2
\* conversation_item_added events of a session
MaxEvents == 3

Tasks == 1..NumTasks

(* ----------------------- program constants ---------------------------- *)
embedding_dim == 1536
batch_size == 20
\* score > 0.5, scores being scaled by 100
Threshold == 50
\* get_answer always searches with top_k=3; search defaults to 3
DefaultTopK == 3

\* the two fixed strings of get_answer (lines 184 and 231)
NoInformationMsg == "no_information_found"
TechnicalDifficultyMsg == "technical_difficulty"
\* message.content of a generation response that carries no text (None)
NoContent == "<None>"
\* message.content of a generation response: a text, an empty or a blank
\* string, or None
GenerationOutputs == {"generated_answer", "", " ", NoContent}
\* the two fixed answers of technical_advice_rag (lines 78 and 84 of
\* tasks/technical_expert_task.py)
BlankAnswerFallbackMsg == "knowledge_base_problem"
ExceptionFallbackMsg == "knowledge_base_unreachable"

\* log_action keeps the last 10 entries (tasks/global_functions.py, line 35)
HistoryLimit == 10
\* the four greetings of greet_with_context (tasks/receptionist_task.py,
\* lines 111, 113, 115 and 117)
ConfirmedGreeting == "appointment_confirmed_anything_else"
CancellationGreeting == "cancellation_noted_new_appointment"
RetryGreeting == "scheduling_problem_try_again"
DefaultGreeting == "how_can_i_direct_you"

(* ------------------------- texts and vectors -------------------------- *)
QueryTexts == {6, 7}
\* separator "\n\n" used by the join of the context, as a token
BlankLine == 0

\* direction (multiple of 30 degrees) of the vector the embedding model
\* returns for a text
TextDir(t) ==
  CASE t = 1 -> 0
    [] t = 2 -> 1
    [] t = 3 -> 2
    [] t = 4 -> 4
    [] t = 6 -> 3
    [] t = 7 -> 1
    [] OTHER -> 7

\* magnitude of the raw vector the embedding model returns for a text
TextMag(t) == IF t \in {2, 4, 6} THEN 2 ELSE 1

\* client.embeddings.create(...).data[j].embedding for one input text
EmbeddingOf(t) == [dir |-> TextDir(t), mag |-> TextMag(t)]

\* 100 * cos(30 degrees * n), n in 0..6
Cos100(n) ==
  CASE n = 0 -> 100
    [] n = 1 -> 87
    [] n = 2 -> 50
    [] n = 3 -> 0
    [] n = 4 -> 0 - 50
    [] n = 5 -> 0 - 87
    [] OTHER -> 0 - 100

AngleBetween(a, b) ==
  LET d == IF a >= b THEN a - b ELSE b - a
  IN IF d > 6 THEN 12 - d ELSE d

\* inner product of two vectors (IndexFlatIP metric), scaled by 100
InnerProduct(u, v) == u.mag * v.mag * Cos100(AngleBetween(u.dir, v.dir))

\* a normalization that leaves the row as it is
normalize_L2Skipped(v) == v

\* faiss.normalize_L2 on one row
normalize_L2(v) == [dir |-> v.dir, mag |-> 1]

NormalizeRows(vs) == [j \in 1..Len(vs) |-> normalize_L2(vs[j])]

Min(a, b) == IF a < b THEN a ELSE b


(* ------------------------------ state --------------------------------- *)
VARIABLES
  \* the module global _rag_instance (0 is None, else the number of the
  \* instance) and the PiscinikRAG objects constructed by this process
  rag_instance, instances,
  \* PiscinikRAG fields of the instance _rag_instance refers to
  initialized, chunks, index,
  \* which way initialize went in this process: "none" (not run yet),
  \* "missing" (an artifact was absent), "corrupt" (read_index raised) or
  \* "loaded"
  init_path,
  \* the three persisted artifacts in data_dir
  csv_file, embeddings_file, index_file,
  \* OPENAI_API_KEY is set in the environment of the process
  api_key,
  \* per task: position (the await it is suspended on), arguments and locals
  pc, op, query, top_k, i, batch, embeddings, relevant_chunks, context,
  \* per task: the instance get_rag_system returned to it (0: none held)
  rag,
  \* per task: embedding and generation requests issued by the current call
  nEmbed, nGen,
  \* per task: asyncio.sleep calls made by the build of the current call
  nSleep,
  \* the call that completed last: arguments, outcome and what it did
  last,
  \* calls issued, _create_embeddings executions started, tasks inside one
  calls, builds, building,
  \* a build of this process has written both artifacts; the process before
  \* this one ended with a build begun and none that had written them
  written, interrupted,
  \* chunks and index as the build that wrote the artifacts last held them
  persisted,
  \* SessionHistory of the session (userdata["session_history"]): the action
  \* entries and the two fields log_action maintains
  actions, last_agent, last_action_time,
  \* the wall clock read by datetime.now(), and log_action calls made
  now, logs,
  \* the session tool or hook that ran last: arguments, return value and the
  \* history as it found it
  last_tool,
  \* UserInfo of the session (userdata["userinfo"]): name and email
  name, email,
  \* the receptionist or scheduler tool that ran last: arguments, the state it
  \* found, the entries it logged, the booking requests it sent, its return
  tool_call,
  \* date.today() of the process, the last convert_french_time_to_iso call
  \* (arguments and return) and the last get_current_datetime_info return
  today, conversion, announced,
  \* TRANSCRIPTION_WEBHOOK_URL and MAKE_WEBHOOK_URL are set in the environment
  webhook_url, make_webhook_url,
  \* conversation_item_added events in emission order, the _on_msg tasks
  \* created and not yet started (the ready queue of the loop), and
  \* TranscriptCollector._messages
  emitted, pending, messages,
  \* per event: where its real-time webhook send stands; the shutdown export
  sends, export,
  \* the event types the Cal.com account holds (per slug of the services
  \* list its id, 0: none), and the setup_event_types call of the process:
  \* the await it is at, its locals schedule_id and event_ids (per slug of
  \* the list the id under that key, 0: no such key), the place in the list
  \* the loop is at, and per slug what the lookup answered and what the
  \* create request answered
  event_types, setup_pc, schedule_id, slug_index, event_ids, lookups, creates

engineVars == <<rag_instance, instances, initialized, chunks, index, init_path>>
fileVars == <<csv_file, embeddings_file, index_file, api_key>>
taskVars == <<pc, op, query, top_k, i, batch, embeddings, relevant_chunks,
              context, rag, nEmbed, nGen>>
runVars == <<written, interrupted, persisted>>
engineState == <<engineVars, fileVars, taskVars, nSleep, last, calls, builds,
                 building, runVars>>
historyVars == <<actions, last_agent, last_action_time, now, logs, last_tool>>
userVars == <<name, email, tool_call>>
dateVars == <<today, conversion, announced>>
transcriptVars == <<webhook_url, make_webhook_url, emitted, pending, messages,
                    sends, export>>
setupVars == <<event_types, setup_pc, schedule_id, slug_index, event_ids,
               lookups, creates>>
serviceVars == <<dateVars, transcriptVars, setupVars>>
exceptDate == <<engineState, historyVars, userVars, transcriptVars, setupVars>>
exceptTranscript == <<engineState, historyVars, userVars, dateVars, setupVars>>
exceptSetup == <<engineState, historyVars, userVars, dateVars, transcriptVars>>
sessionVars == <<historyVars, userVars, serviceVars>>
vars == <<engineVars, fileVars, taskVars, nSleep, last, calls, builds, building,
          runVars, sessionVars>>

\* self.index = None
NoIndex == [exists |-> FALSE, d |-> 0, vecs |-> <<>>]
AbsentFile == [exists |-> FALSE, rows |-> <<>>]
AbsentIndexFile == [exists |-> FALSE, ok |-> FALSE, d |-> 0, vecs |-> <<>>]
NoReturn == [kind |-> "none", list |-> <<>>, str |-> ""]
NoCall == [task |-> 0, op |-> "none", query |-> 0, top_k |-> 0, ret |-> NoReturn,
           search |-> NoReturn, context |-> <<>>, nEmbed |-> 0, nGen |-> 0,
           failed |-> "none", rag |-> 0, advice |-> ""]

\* a corpus of n rows: four distinct texts, then the same text repeated
Corpus(n) == [j \in 1..n |-> IF j <= 4 THEN j ELSE 8]

\* a corpus that needs three batches
LongCorpus == 2 * batch_size + 5

\* a corpus that fills one batch exactly
FullBatchCorpus == batch_size

\* the rows np.save / faiss.write_index wrote in an earlier run over rows
PersistedVectors(rows) == [j \in 1..Len(rows) |-> normalize_L2(EmbeddingOf(rows[j]))]

InitFiles ==
  \E present \in BOOLEAN, n \in (0..MaxChunks) \cup {FullBatchCorpus, LongCorpus},
     npy \in BOOLEAN,
     idx \in {"absent", "ok", "corrupt", "other_dim"} :
    LET rows == IF present THEN Corpus(n) ELSE Corpus(2)
    IN /\ present \/ n = 0
       /\ (present /\ n = 0) => (~npy /\ idx = "absent")
       \* the long corpora come with no artifact or with both
       /\ n > MaxChunks => (npy <=> idx = "ok") /\ idx \in {"absent", "ok"}
       /\ csv_file = IF present THEN [exists |-> TRUE, rows |-> rows]
                     ELSE AbsentFile
       /\ embeddings_file = IF npy
                            THEN [exists |-> TRUE, rows |-> PersistedVectors(rows)]
                            ELSE AbsentFile
       /\ index_file =
            CASE idx = "absent" -> AbsentIndexFile
              [] idx = "ok" -> [exists |-> TRUE, ok |-> TRUE, d |-> embedding_dim,
                                vecs |-> PersistedVectors(rows)]
              \* an index written for an embedding model of another width:
              \* faiss.read_index takes the dimension from the file
              [] idx = "other_dim" ->
                   [exists |-> TRUE, ok |-> TRUE, d |-> embedding_dim \div 2,
                    vecs |-> PersistedVectors(rows)]
              [] OTHER -> [exists |-> TRUE, ok |-> FALSE, d |-> 0, vecs |-> <<>>]

\* None where a string is expected, and where a timestamp is (the clock
\* stamps entries from 1 on)
None == "None"
NoTime == 0
NoEntry == [timestamp |-> NoTime, agent |-> None, action |-> None,
            details |-> None]
NoTool == [tool |-> "none", ret |-> None, before |-> <<>>, entry |-> NoEntry]

NoToolCall == [tool |-> "none", supplied |-> None, service |-> None,
               response |-> None, name |-> None, email |-> None,
               before |-> <<>>, logged |-> <<>>, sent |-> 0, ret |-> None,
               agent |-> None]

\* SessionHistory(actions=[], last_agent=None, last_action_time=None) as the
\* entrypoint builds it
HistoryStart ==
  /\ actions = <<>>
  /\ last_agent = None
  /\ last_action_time = NoTime
  /\ now = 0
  /\ logs = 0
  /\ last_tool = NoTool

\* UserInfo() as the entrypoint builds it: every field None
UserInfoStart ==
  /\ name = None
  /\ email = None
  /\ tool_call = NoToolCall

\* userdata of a new session
SessionStart ==
  /\ HistoryStart
  /\ UserInfoStart

\* datetime.date(year, month, day)
Date(year, month, day) == [year |-> year, month |-> month, day |-> day]

\* no convert_french_time_to_iso call made yet
NoConversion ==
  [date_description |-> None, time_description |-> None, raised |-> FALSE,
   iso_datetime |-> None]

\* no get_current_datetime_info call made yet
NoDateInfo == [today |-> None, demain |-> None, apres_demain |-> None]

\* the date tools have not been called; the process runs on the day d
DateStart(d) ==
  /\ today = d
  /\ conversion = NoConversion
  /\ announced = NoDateInfo

\* _export has not run
NoExport == [state |-> "none", reason |-> None, recorded |-> 0, payload |-> <<>>]

\* TranscriptCollector.__init__ in a process whose environment sets the two
\* URLs or not: no message, no task, the shutdown callback not called
TranscriptStart(url, make_url) ==
  /\ webhook_url = url
  /\ make_webhook_url = make_url
  /\ emitted = <<>>
  /\ pending = <<>>
  /\ messages = <<>>
  /\ sends = <<>>
  /\ export = NoExport

\* the slugs of the services list (lines 145-150), in its order
services ==
  <<"diagnostic-piscine", "entretien-piscine", "reparation-piscine",
    "installation-equipement">>

Slugs == { services[k] : k \in 1..Len(services) }

\* event_ids = {}
NoEventIds == [k \in 1..Len(services) |-> 0]

\* setup_event_types has not been called; the account holds the event types
\* of the slugs in have, numbered by their place in the list
SetupStart(have) ==
  /\ event_types =
       [k \in 1..Len(services) |-> IF services[k] \in have THEN k ELSE 0]
  /\ setup_pc = "idle"
  /\ schedule_id = 0
  /\ slug_index = 0
  /\ event_ids = NoEventIds
  /\ lookups = [k \in 1..Len(services) |-> "none"]
  /\ creates = [k \in 1..Len(services) |-> "none"]

\* the services outside the session, none of them used yet
ServicesStart ==
  /\ DateStart(Date(2025, 6, 17))
  /\ TranscriptStart(TRUE, TRUE)
  /\ SetupStart({})

\* PiscinikRAG.__init__ for the shared instance, no call issued yet
EngineStart ==
  /\ rag_instance = 0
  /\ instances = 0
  /\ initialized = FALSE
  /\ chunks = <<>>
  /\ index = NoIndex
  /\ init_path = "none"
  /\ InitFiles
  /\ api_key \in BOOLEAN
  /\ pc = [p \in Tasks |-> "idle"]
  /\ op = [p \in Tasks |-> "none"]
  /\ query = [p \in Tasks |-> 0]
  /\ top_k = [p \in Tasks |-> 0]
  /\ i = [p \in Tasks |-> 0]
  /\ batch = [p \in Tasks |-> <<>>]
  /\ embeddings = [p \in Tasks |-> <<>>]
  /\ relevant_chunks = [p \in Tasks |-> <<>>]
  /\ context = [p \in Tasks |-> <<>>]
  /\ rag = [p \in Tasks |-> 0]
  /\ nEmbed = [p \in Tasks |-> 0]
  /\ nGen = [p \in Tasks |-> 0]
  /\ nSleep = [p \in Tasks |-> 0]
  /\ last = NoCall
  /\ calls = 0
  /\ builds = 0
  /\ building = {}
  /\ written = FALSE
  /\ interrupted = FALSE
  /\ persisted = [exists |-> FALSE, chunks |-> <<>>, index |-> NoIndex]

\* a process and its first session, nothing called yet
Init ==
  /\ SessionStart
  /\ EngineStart
  /\ ServicesStart

(* --------------------------- pure helpers ----------------------------- *)
\* a presence check that forgets embeddings.npy
FilesExistWithoutEmbeddings == csv_file.exists /\ index_file.exists

\* PiscinikRAG._files_exist
FilesExist == csv_file.exists /\ embeddings_file.exists /\ index_file.exists

\* faiss.write_index(self.index, path): the file holds the dimension and the
\* stored vectors
WriteIndex(ix) == [exists |-> TRUE, ok |-> TRUE, d |-> ix.d, vecs |-> ix.vecs]

\* a reader that restores the dimension and leaves the index empty
ReadIndexWithoutVectors(f) == [exists |-> TRUE, d |-> f.d, vecs |-> <<>>]

\* faiss.read_index(path) of a file that deserializes
ReadIndex(f) == [exists |-> TRUE, d |-> f.d, vecs |-> f.vecs]

\* a get_rag_system that constructs an instance at every call
InstanceAlwaysMissing == TRUE

\* "if _rag_instance is None" in get_rag_system (line 240)
InstanceMissing == rag_instance = 0

\* the fields of the instance get_rag_system hands to initialize: the ones
\* __init__ sets (lines 30-32) when it has just constructed it
Instance ==
  IF InstanceMissing
  THEN [initialized |-> FALSE, chunks |-> <<>>, index |-> NoIndex]
  ELSE [initialized |-> initialized, chunks |-> chunks, index |-> index]

\* what get_rag_system returns (line 243): the instance it has just
\* constructed or the one the module global refers to
GetRagSystem == IF InstanceMissing THEN instances + 1 ELSE rag_instance

\* the local variable rag of task p: set when its call begins
RagOf(p) == IF pc[p] = "idle" THEN GetRagSystem ELSE rag[p]

\* PiscinikRAG.initialize with _load_existing inlined: the engine fields
\* after the call.  It contains no suspension point.
Initialize ==
  IF Instance.initialized
  THEN [initialized |-> TRUE, chunks |-> Instance.chunks, index |-> Instance.index]
  ELSE IF FilesExist
       THEN IF index_file.ok
            THEN [initialized |-> TRUE, chunks |-> csv_file.rows,
                  index |-> ReadIndex(index_file)]
            \* faiss.read_index raises: degraded mode, chunks reset
            ELSE [initialized |-> TRUE, chunks |-> <<>>, index |-> Instance.index]
       ELSE [initialized |-> TRUE, chunks |-> <<>>, index |-> Instance.index]

\* the branch initialize takes over the files as they are (lines 40-56)
InitializePath ==
  IF Instance.initialized THEN init_path
  ELSE IF ~(csv_file.exists /\ embeddings_file.exists /\ index_file.exists)
       THEN "missing"
       ELSE IF index_file.ok THEN "loaded" ELSE "corrupt"

\* one raw row of index.search: k entries, the first ones valid positions
\* (0-based) by non-increasing score, the rest padded with -1.  The order
\* among equal scores is whatever the library returns.
\* sc is the score of every position of the index against the query
RECURSIVE Rankings(_, _, _)
Rankings(sc, rest, m) ==
  IF m = 0 \/ rest = {} THEN {<<>>}
  ELSE LET best == {pos \in rest : \A o \in rest : sc[pos + 1] >= sc[o + 1]}
       IN UNION { { <<[idx |-> pos, score |-> sc[pos + 1]]>> \o r :
                      r \in Rankings(sc, rest \ {pos}, m - 1) } : pos \in best }

\* the score of every stored vector against the query, in storage order
RECURSIVE Scores(_, _)
Scores(qv, vecs) ==
  IF vecs = <<>> THEN <<>>
  ELSE <<InnerProduct(qv, Head(vecs))>> \o Scores(qv, Tail(vecs))

FaissSearch(ix, qv, k) ==
  LET n == Len(ix.vecs)
      sc == Scores(qv, ix.vecs)
  IN { r \o [j \in 1..(k - Len(r)) |-> [idx |-> 0 - 1, score |-> 0 - 1000]] :
         r \in Rankings(sc, 0..(n - 1), k) }

\* the loop without its range test: Python reads chunks[-1] as the last chunk
ZipResultsNoRangeTest(raw, cs) ==
  LET kept == SelectSeq(raw, LAMBDA h : h.idx < Len(cs))
  IN [j \in 1..Len(kept) |->
        [chunk |-> IF kept[j].idx < 0 THEN cs[Len(cs)] ELSE cs[kept[j].idx + 1],
         score |-> kept[j].score]]

\* the loop "for score, idx in zip(scores[0], indices[0])" of search
RECURSIVE ZipResults(_, _)
ZipResults(raw, cs) ==
  IF raw = <<>> THEN <<>>
  ELSE LET h == Head(raw)
       IN IF 0 <= h.idx /\ h.idx < Len(cs)
          THEN <<[chunk |-> cs[h.idx + 1], score |-> h.score]>> \o ZipResults(Tail(raw), cs)
          ELSE ZipResults(Tail(raw), cs)

\* a threshold test that also keeps a score of exactly 0.5
AtOrAboveThreshold(score) == score >= Threshold

\* "if score > 0.5"
AboveThreshold(score) == score > Threshold

\* the loop building context_parts in get_answer
RECURSIVE Retained(_)
Retained(rs) ==
  IF rs = <<>> THEN <<>>
  ELSE IF AboveThreshold(Head(rs).score)
       THEN <<Head(rs).chunk>> \o Retained(Tail(rs))
       ELSE Retained(Tail(rs))

\* context_parts without the fallback to the best result
ContextPartsNoFallback(rs) == Retained(rs)

\* context_parts after the fallback "if not context_parts"
ContextParts(rs) ==
  IF Retained(rs) = <<>> THEN <<rs[1].chunk>> ELSE Retained(rs)

\* "\n\n".join(context_parts)
RECURSIVE Join(_)
Join(parts) ==
  IF parts = <<>> THEN <<>>
  ELSE IF Len(parts) = 1 THEN <<parts[1]>>
  ELSE <<parts[1], BlankLine>> \o Join(Tail(parts))


(* ----------------------- outcomes of a call --------------------------- *)
Returned(list) == [kind |-> "list", list |-> list, str |-> ""]
Answered(str) == [kind |-> "str", list |-> <<>>, str |-> str]
Raised == [kind |-> "raise", list |-> <<>>, str |-> ""]

\* a search that lets the exception of its try block escape
SearchExceptReraise == Raised

\* "except Exception: return []" of search (lines 170-172)
SearchExcept == Returned(<<>>)

\* "except Exception: raise" inside the batch loop of _create_embeddings
\* (lines 110-112); nothing in search catches it
BuildExcept == Raised

\* a get_answer whose handler re-raises
GetAnswerExceptReraise == Raised

\* a get_answer whose handler returns the wrong fixed string
GetAnswerExceptNoInfo == Answered(NoInformationMsg)

\* "except Exception: return <technical difficulty>" of get_answer
GetAnswerExcept == Answered(TechnicalDifficultyMsg)

\* a get_answer that gives up when no chunk clears the threshold
NoChunkAboveThreshold(rs) == Retained(rs) = <<>>

\* "if not relevant_chunks: return <no information found>" in get_answer
NoChunkFound(rs) == rs = <<>>

\* a search that builds whenever it holds no chunk, corpus file or not
NeedsBuildWithoutCorpusCheck(cs) == cs = <<>>

\* a search with the chunk test inverted: it builds when it holds chunks
NeedsBuildWhenChunksHeld(cs) == cs # <<>> /\ csv_file.exists

\* a search that builds whenever the corpus file is there
NeedsBuildWheneverCorpus(cs) == csv_file.exists

\* "if not self.chunks and self.csv_path.exists()" in search (line 136)
NeedsBuild(cs) == cs = <<>> /\ csv_file.exists

\* a pacing test that also sleeps after the last batch
MoreBatchesInclusive(cs, off) == off + batch_size <= Len(cs)

\* "if i + batch_size < len(self.chunks)" (line 107)
MoreBatches(cs, off) == off + batch_size < Len(cs)

\* a loop body that puts the vectors of the batch before the earlier ones
ExtendEmbeddingsAtFront(embs, bt) ==
  [j \in 1..Len(bt) |-> EmbeddingOf(bt[j])] \o embs

\* "batch_embeddings = [data.embedding for data in response.data]" and
\* "embeddings.extend(batch_embeddings)": the response holds one vector per
\* input text, in input order
ExtendEmbeddings(embs, bt) ==
  embs \o [j \in 1..Len(bt) |-> EmbeddingOf(bt[j])]

\* str.strip() on the strings of the model
Strip(s) == IF s = " " THEN "" ELSE s

\* "not answer": None and the empty string are false
Falsy(s) == s \in {NoContent, ""}

\* a technical_advice_rag that hands on whatever get_answer returned
TechnicalAdviceUnchecked(o, r) ==
  IF o = "search" THEN ""
  ELSE IF r.kind = "raise" THEN ExceptionFallbackMsg
  ELSE r.str

\* What technical_advice_rag returns when its call of get_rag_system and
\* get_answer ended with outcome r (lines 57-84 of
\* tasks/technical_expert_task.py); a bare search does not pass through it.
TechnicalAdvice(o, r) ==
  IF o = "search" THEN ""
  ELSE IF r.kind = "raise" THEN ExceptionFallbackMsg
  ELSE IF Falsy(r.str) \/ Strip(r.str) = "" THEN BlankAnswerFallbackMsg
  ELSE r.str

\* chunks[i:i + batch_size]
BatchAt(cs, off) == SubSeq(cs, off + 1, Min(off + batch_size, Len(cs)))

\* The call of task p is over: its frame is dropped and the call recorded.
Finish(p, o, q, k, r, out, ctx, ne, ng, f) ==
  /\ pc' = [pc EXCEPT ![p] = "idle"]
  /\ op' = [op EXCEPT ![p] = "none"]
  /\ query' = [query EXCEPT ![p] = 0]
  /\ top_k' = [top_k EXCEPT ![p] = 0]
  /\ i' = [i EXCEPT ![p] = 0]
  /\ batch' = [batch EXCEPT ![p] = <<>>]
  /\ embeddings' = [embeddings EXCEPT ![p] = <<>>]
  /\ relevant_chunks' = [relevant_chunks EXCEPT ![p] = <<>>]
  /\ context' = [context EXCEPT ![p] = <<>>]
  /\ rag' = [rag EXCEPT ![p] = 0]
  /\ nEmbed' = [nEmbed EXCEPT ![p] = 0]
  /\ nGen' = [nGen EXCEPT ![p] = 0]
  /\ last' = [task |-> p, op |-> o, query |-> q, top_k |-> k, ret |-> r,
              search |-> out, context |-> ctx, nEmbed |-> ne, nGen |-> ng,
              failed |-> f, rag |-> RagOf(p), advice |-> TechnicalAdvice(o, r)]

\* The task stays in its call, suspended at `where`.
Suspend(p, where, o, q, k, off, bt, embs, rel, ctx, ne, ng) ==
  /\ pc' = [pc EXCEPT ![p] = where]
  /\ op' = [op EXCEPT ![p] = o]
  /\ query' = [query EXCEPT ![p] = q]
  /\ top_k' = [top_k EXCEPT ![p] = k]
  /\ i' = [i EXCEPT ![p] = off]
  /\ batch' = [batch EXCEPT ![p] = bt]
  /\ embeddings' = [embeddings EXCEPT ![p] = embs]
  /\ relevant_chunks' = [relevant_chunks EXCEPT ![p] = rel]
  /\ context' = [context EXCEPT ![p] = ctx]
  /\ rag' = [rag EXCEPT ![p] = RagOf(p)]
  /\ nEmbed' = [nEmbed EXCEPT ![p] = ne]
  /\ nGen' = [nGen EXCEPT ![p] = ng]
  /\ UNCHANGED last

\* What the caller of search does with its outcome `out`, up to its next
\* suspension point.  A direct caller gets the outcome; get_answer
\* (lines 180-222) maps it to a fixed string or issues the generation call.
\* ne: embedding requests issued so far, f: where the call failed.
AfterSearch(p, o, q, k, out, ne, f) ==
  IF o = "search"
  THEN Finish(p, o, q, k, out, out, <<>>, ne, 0, f)
  ELSE IF out.kind = "raise"
  THEN Finish(p, o, q, k, GetAnswerExcept, out, <<>>, ne, 0, f)
  ELSE IF NoChunkFound(out.list)
  THEN Finish(p, o, q, k, Answered(NoInformationMsg), out, <<>>, ne, 0, f)
  ELSE Suspend(p, "generate", o, q, k, 0, <<>>, <<>>, out.list,
               Join(ContextParts(out.list)), ne, 1)

(* ------------------------------ actions ------------------------------- *)
\* Task p obtains the engine from get_rag_system, calls search(q, k) or
\* get_answer(q) on it and runs to its first suspension point or to its
\* return: lines 239-243, 132-148 (and 176-184).
Call(p, o, q, k) ==
  LET e == Initialize
      build == NeedsBuild(e.chunks)
      cs == IF build THEN csv_file.rows ELSE e.chunks
  IN /\ pc[p] = "idle"
     /\ UNCHANGED sessionVars
     \* tasks are interchangeable: the lowest idle one takes the next call
     /\ \A r \in Tasks : r < p => pc[r] # "idle"
     /\ calls < MaxCalls
     /\ api_key
     /\ o = "get_answer" => k = DefaultTopK
     /\ calls' = calls + 1
     \* get_rag_system, lines 239-243
     /\ instances' = IF InstanceMissing THEN instances + 1 ELSE instances
     /\ rag_instance' = GetRagSystem
     /\ initialized' = e.initialized
     /\ init_path' = InitializePath
     /\ index' = e.index
     /\ chunks' = cs
     /\ UNCHANGED <<fileVars, runVars, nSleep>>
     /\ IF build
        THEN \* _create_embeddings, lines 79-96
             /\ builds' = builds + 1
             /\ IF cs = <<>>
                THEN \* no batch; np.array([]) is 1-D and normalize_L2 raises
                     /\ UNCHANGED building
                     /\ AfterSearch(p, o, q, k, Raised, 0, "build_empty")
                ELSE /\ building' = building \cup {p}
                     /\ Suspend(p, "build_embed", o, q, k, 0, BatchAt(cs, 0),
                                <<>>, <<>>, <<>>, 1, 0)
        ELSE /\ UNCHANGED <<builds, building>>
             /\ IF cs = <<>>
                THEN \* lines 140-142
                     AfterSearch(p, o, q, k, Returned(<<>>), 0, "none")
                ELSE \* line 148
                     Suspend(p, "query_embed", o, q, k, 0, <<>>, <<>>, <<>>,
                             <<>>, 1, 0)

\* Task p calls get_rag_system while OPENAI_API_KEY is not set: the module
\* global is None, PiscinikRAG() is entered and AsyncOpenAI(api_key=None)
\* raises (line 25); nothing is assigned to the global (lines 240-241) and the
\* exception reaches the caller.
CallWithoutCredential(p) ==
  /\ pc[p] = "idle"
  /\ \A r \in Tasks : r < p => pc[r] # "idle"
  /\ calls < MaxCalls
  /\ ~api_key
  /\ InstanceMissing
  /\ calls' = calls + 1
  /\ last' = [NoCall EXCEPT !.task = p, !.op = "get_rag_system", !.ret = Raised,
                            !.failed = "credential",
                            !.advice = TechnicalAdvice("get_rag_system", Raised)]
  /\ UNCHANGED <<engineVars, fileVars, taskVars, nSleep, builds, building, runVars,
                 sessionVars>>

\* The embedding request of a batch fails: lines 110-112, the exception
\* leaves _create_embeddings and search.
BuildEmbedFail(p) ==
  /\ pc[p] = "build_embed"
  /\ building' = building \ {p}
  /\ AfterSearch(p, op[p], query[p], top_k[p], BuildExcept, nEmbed[p], "build")
  /\ nSleep' = [nSleep EXCEPT ![p] = 0]
  /\ UNCHANGED <<engineVars, fileVars, calls, builds, runVars, sessionVars>>

\* The embedding request of a batch succeeds: lines 101-108, and when it
\* was the last batch lines 114-128 and 140-148.
BuildEmbedOk(p) ==
  LET embs == ExtendEmbeddings(embeddings[p], batch[p])
  IN /\ pc[p] = "build_embed"
     /\ UNCHANGED <<rag_instance, instances, initialized, chunks, init_path,
                    csv_file, api_key, calls, builds, interrupted, sessionVars>>
     /\ IF MoreBatches(chunks, i[p])
        THEN /\ nSleep' = [nSleep EXCEPT ![p] = @ + 1]
             /\ Suspend(p, "build_sleep", op[p], query[p], top_k[p], i[p],
                        batch[p], embs, <<>>, <<>>, nEmbed[p], 0)
             /\ UNCHANGED <<index, embeddings_file, index_file, building,
                            written, persisted>>
        ELSE LET embeddings_array == NormalizeRows(embs)
             IN /\ index' = [exists |-> TRUE, d |-> embedding_dim,
                             vecs |-> embeddings_array]
                /\ embeddings_file' = [exists |-> TRUE, rows |-> embeddings_array]
                /\ index_file' = WriteIndex(index')
                /\ persisted' = [exists |-> TRUE, chunks |-> chunks,
                                 index |-> index']
                /\ building' = building \ {p}
                /\ written' = TRUE
                /\ UNCHANGED nSleep
                /\ IF chunks = <<>>
                   THEN AfterSearch(p, op[p], query[p], top_k[p], Returned(<<>>),
                                    nEmbed[p], "none")
                   ELSE Suspend(p, "query_embed", op[p], query[p], top_k[p], 0,
                                <<>>, <<>>, <<>>, <<>>, nEmbed[p] + 1, 0)

\* asyncio.sleep(0.2) is over: next iteration of the batch loop, lines 92-96
BuildSleepDone(p) ==
  /\ pc[p] = "build_sleep"
  /\ Suspend(p, "build_embed", op[p], query[p], top_k[p], i[p] + batch_size,
             BatchAt(chunks, i[p] + batch_size), embeddings[p], <<>>, <<>>,
             nEmbed[p] + 1, 0)
  /\ UNCHANGED <<engineVars, fileVars, calls, builds, building, runVars, nSleep,
                 sessionVars>>

\* The embedding request of the query fails: lines 170-172
QueryEmbedFail(p) ==
  /\ pc[p] = "query_embed"
  /\ AfterSearch(p, op[p], query[p], top_k[p], SearchExcept, nEmbed[p],
                 "query_embed")
  /\ nSleep' = [nSleep EXCEPT ![p] = 0]
  /\ UNCHANGED <<engineVars, fileVars, calls, builds, building, runVars,
                 sessionVars>>

\* The embedding request of the query succeeds: lines 153-168.  self.index
\* is read now; None, or an index of another dimension, raises inside the
\* try block.
QueryEmbedOk(p) ==
  /\ pc[p] = "query_embed"
  /\ nSleep' = [nSleep EXCEPT ![p] = 0]
  /\ UNCHANGED <<engineVars, fileVars, calls, builds, building, runVars,
                 sessionVars>>
  /\ IF ~index.exists \/ index.d # embedding_dim
     THEN AfterSearch(p, op[p], query[p], top_k[p], SearchExcept, nEmbed[p],
                      "index_lookup")
     ELSE \E raw \in FaissSearch(index, normalize_L2(EmbeddingOf(query[p])), top_k[p]) :
             AfterSearch(p, op[p], query[p], top_k[p],
                         Returned(ZipResults(raw, chunks)), nEmbed[p], "none")

\* The generation request fails: lines 229-231
GenerateFail(p) ==
  /\ pc[p] = "generate"
  /\ Finish(p, op[p], query[p], top_k[p], GetAnswerExcept,
            Returned(relevant_chunks[p]), context[p], nEmbed[p], nGen[p],
            "generate")
  /\ UNCHANGED <<engineVars, fileVars, calls, builds, building, runVars, nSleep,
                 sessionVars>>

\* The generation request succeeds: lines 224-227
GenerateOk(p) ==
  /\ pc[p] = "generate"
  /\ \E text \in GenerationOutputs :
       Finish(p, op[p], query[p], top_k[p], Answered(text),
              Returned(relevant_chunks[p]), context[p], nEmbed[p], nGen[p],
              "none")
  /\ UNCHANGED <<engineVars, fileVars, calls, builds, building, runVars, nSleep,
                 sessionVars>>

\* The operator supplies the corpus file that was missing: the csv appears
\* in data_dir while the process runs (search looks for it again at each
\* call, line 136).
SupplyCorpus(n) ==
  /\ ~csv_file.exists
  /\ csv_file' = [exists |-> TRUE, rows |-> Corpus(n)]
  /\ UNCHANGED <<engineVars, embeddings_file, index_file, api_key, taskVars, last,
                 calls, builds, building, runVars, nSleep, sessionVars>>

\* The process ends and a new one is started over the files as they are:
\* every task is gone and the engine is as __init__ leaves it (lines 30-32).
ProcessStart ==
  /\ rag_instance' = 0
  /\ instances' = 0
  /\ initialized' = FALSE
  /\ chunks' = <<>>
  /\ index' = NoIndex
  /\ init_path' = "none"
  /\ pc' = [p \in Tasks |-> "idle"]
  /\ op' = [p \in Tasks |-> "none"]
  /\ query' = [p \in Tasks |-> 0]
  /\ top_k' = [p \in Tasks |-> 0]
  /\ i' = [p \in Tasks |-> 0]
  /\ batch' = [p \in Tasks |-> <<>>]
  /\ embeddings' = [p \in Tasks |-> <<>>]
  /\ relevant_chunks' = [p \in Tasks |-> <<>>]
  /\ context' = [p \in Tasks |-> <<>>]
  /\ rag' = [p \in Tasks |-> 0]
  /\ nEmbed' = [p \in Tasks |-> 0]
  /\ nGen' = [p \in Tasks |-> 0]
  /\ nSleep' = [p \in Tasks |-> 0]
  /\ last' = NoCall
  /\ builds' = 0
  /\ building' = {}
  /\ written' = FALSE
  /\ interrupted' = (builds >= 1 /\ ~written)
  /\ UNCHANGED persisted
  /\ UNCHANGED <<csv_file, api_key, calls, sessionVars>>

\* The process is restarted at a point where no file is half written
Restart ==
  /\ initialized
  /\ ProcessStart
  /\ UNCHANGED <<embeddings_file, index_file>>

\* The process dies between np.save (line 125) and faiss.write_index
\* (line 126) of task p's build, and is started again.
CrashBetweenWrites(p) ==
  /\ pc[p] = "build_embed"
  /\ ~MoreBatches(chunks, i[p])
  /\ LET embs == ExtendEmbeddings(embeddings[p], batch[p])
     IN embeddings_file' = [exists |-> TRUE, rows |-> NormalizeRows(embs)]
  /\ ProcessStart
  /\ UNCHANGED index_file

\* what the engine is called with: get_answer(query), search(query) with the
\* default top_k, and search(query, 1) for the text whose best score is tied
CallArguments ==
  { a \in {"search", "get_answer"} \X QueryTexts \X {1, DefaultTopK} :
      (a[1] = "get_answer" \/ a[2] = 7) => a[3] = DefaultTopK }

Next ==
  \/ \E n \in 0..MaxChunks : SupplyCorpus(n)
  \/ Restart
  \/ \E p \in Tasks :
      \/ \E a \in CallArguments : Call(p, a[1], a[2], a[3])
      \/ CallWithoutCredential(p)
      \/ BuildEmbedFail(p)
      \/ BuildEmbedOk(p)
      \/ CrashBetweenWrites(p)
      \/ BuildSleepDone(p)
      \/ QueryEmbedFail(p)
      \/ QueryEmbedOk(p)
      \/ GenerateFail(p)
      \/ GenerateOk(p)

Spec == Init /\ [][Next]_vars


(* -------------------------- session history -------------------------- *)
\* The session tools of tasks/global_functions.py and the receptionist's
\* hooks (tasks/receptionist_task.py) over the SessionHistory object.  None
\* of them awaits anything that suspends, so each runs atomically.  An entry
\* is a record timestamp / agent / action / details; details is a free text,
\* modelled by the one action name it spells out (or by "text").

\* what log_action is called with: agent_name, action_type, details
LogInputs ==
  { <<"scheduler", "appointment_scheduled", "text">>,
    <<"scheduler", "appointment_cancelled", "text">>,
    <<"scheduler", "appointment_rescheduled", "text">>,
    <<"scheduler", "appointment_rescheduled", "appointment_failed">>,
    <<"scheduler", "appointment_failed", "text">>,
    <<"scheduler", "appointment_error", "text">>,
    <<"technical_expert", "technical_advice", "text">> }

\* xs[-n:]
LastN(xs, n) ==
  IF Len(xs) <= n THEN xs ELSE SubSeq(xs, Len(xs) - n + 1, Len(xs))

\* lines 35-36 without the slice
TrimNever(xs) == xs

\* lines 35-36: if len(actions) > 10: actions = actions[-10:]
Trim(xs) == IF Len(xs) > HistoryLimit THEN LastN(xs, HistoryLimit) ELSE xs

\* the dict built at lines 22-27 (and 82-87 of the receptionist)
Entry(agent_name, action_type, details) ==
  [timestamp |-> now + 1, agent |-> agent_name, action |-> action_type,
   details |-> details]

\* log_action, lines 20-39
LogAction(agent_name, action_type, details) ==
  LET action_entry == Entry(agent_name, action_type, details)
  IN /\ now < MaxOps
     /\ logs < MaxLogs
     /\ now' = now + 1
     /\ logs' = logs + 1
     /\ actions' = Trim(Append(actions, action_entry))
     /\ last_agent' = agent_name
     /\ last_action_time' = action_entry.timestamp
     /\ last_tool' = [tool |-> "log_action", ret |-> action_type,
                      before |-> actions, entry |-> action_entry]
     /\ UNCHANGED <<engineState, userVars, serviceVars>>

\* Receptionist.on_enter, lines 81-88: the entry is appended and nothing else
\* of the history is touched
OnEnter ==
  LET action_entry == Entry("receptionist", "customer_welcomed", "text")
  IN /\ now < MaxOps
     /\ now' = now + 1
     /\ actions' = Append(actions, action_entry)
     /\ last_tool' = [tool |-> "on_enter", ret |-> None, before |-> actions,
                      entry |-> action_entry]
     /\ UNCHANGED <<last_agent, last_action_time, logs, engineState, userVars,
                 serviceVars>>

\* the actions check_recent_appointment looks for (line 77)
RecentAppointmentActions ==
  {"appointment_scheduled", "appointment_cancelled", "appointment_rescheduled"}

\* check_recent_appointment, lines 76-80: the newest entry whose action is one
\* of the three, formatted with its action and details, or "None"
check_recent_appointment(acts) ==
  LET hits == {j \in 1..Len(acts) : acts[j].action \in RecentAppointmentActions}
  IN IF hits = {} THEN [action |-> None, details |-> None]
     ELSE LET j == CHOOSE k \in hits : \A h \in hits : h <= k
          IN [action |-> acts[j].action, details |-> acts[j].details]

\* word in recent_appointment, for the string of line 78
Contains(recent_appointment, word) ==
  recent_appointment.action = word \/ recent_appointment.details = word

\* greet_with_context, lines 107-117
greet_with_context(acts) ==
  LET recent_appointment == check_recent_appointment(acts)
  IN IF recent_appointment.action = None THEN DefaultGreeting
     ELSE IF Contains(recent_appointment, "appointment_scheduled")
          THEN ConfirmedGreeting
     ELSE IF Contains(recent_appointment, "appointment_cancelled")
          THEN CancellationGreeting
     ELSE IF \/ Contains(recent_appointment, "appointment_failed")
             \/ Contains(recent_appointment, "appointment_error")
          THEN RetryGreeting
     ELSE DefaultGreeting

\* the receptionist's greet_with_context tool is called
GreetWithContext ==
  /\ last_tool' = [tool |-> "greet_with_context", ret |-> greet_with_context(actions),
                   before |-> actions, entry |-> NoEntry]
  /\ UNCHANGED <<actions, last_agent, last_action_time, now, logs, engineState,
                 userVars, serviceVars>>

\* a session of a process whose engine has not been called
SessionInit ==
  /\ Init
  /\ ~csv_file.exists /\ ~embeddings_file.exists /\ ~index_file.exists
  /\ api_key

SessionNext ==
  \/ \E inp \in LogInputs : LogAction(inp[1], inp[2], inp[3])
  \/ OnEnter
  \/ GreetWithContext

SessionSpec == SessionInit /\ [][SessionNext]_vars


(* --------------------- reception and booking tools -------------------- *)
\* The receptionist's transfer tools (tasks/receptionist_task.py) and the
\* scheduler's booking tools (tasks/scheduler_task.py) over userinfo and the
\* session history.  Each tool runs alone: the session executes one tool
\* call at a time, and the only suspension inside one is the booking request.

\* names a caller gives: none at all, a first name, a full name
SuppliedNames == {"", "Alice", "Bob Martin"}
\* the action argument of request_appointment, the three documented values
\* and one that is none of them
RequestedActions == {"planifier", "replanifier", "annuler", "autre"}

\* "not userinfo.name": None and the empty string are both falsy
Unset(s) == s \in {None, ""}

\* the SessionHistory fields log_action works on
History ==
  [actions |-> actions, last_agent |-> last_agent,
   last_action_time |-> last_action_time, now |-> now]

\* log_action on the history h, lines 20-36 of tasks/global_functions.py
log_action(h, agent_name, action_type, details) ==
  LET action_entry == [timestamp |-> h.now + 1, agent |-> agent_name,
                       action |-> action_type, details |-> details]
  IN [actions |-> Trim(Append(h.actions, action_entry)),
      last_agent |-> agent_name,
      last_action_time |-> action_entry.timestamp,
      now |-> h.now + 1]

\* the history after a tool's log_action calls, made in the order of cs (each
\* a triple agent_name, action_type, details)
RECURSIVE LogEach(_, _)
LogEach(h, cs) ==
  IF cs = <<>> THEN h
  ELSE LogEach(log_action(h, cs[1][1], cs[1][2], cs[1][3]), Tail(cs))

\* a tool returns after making the log_action calls cs
ToolReturns(cs, call) ==
  LET h == LogEach(History, cs)
  IN /\ logs + Len(cs) <= MaxLogs
     /\ logs' = logs + Len(cs)
     /\ actions' = h.actions
     /\ last_agent' = h.last_agent
     /\ last_action_time' = h.last_action_time
     /\ now' = h.now
     /\ tool_call' = [call EXCEPT !.before = actions, !.name = name,
                                  !.email = email,
                                  !.logged = [j \in 1..Len(cs) |-> cs[j][2]]]
     /\ UNCHANGED <<last_tool, engineState, serviceVars>>

\* first statement of the three transfer tools: the name given is recorded
\* only when no name is (lines 160-161, 192-193, 216-218)
RecordNameAlways(supplied) == supplied

RecordName(supplied) == IF Unset(name) THEN supplied ELSE name

\* Receptionist.request_appointment, lines 160-181
RequestAppointment(supplied, action) ==
  /\ name' = RecordName(supplied)
  /\ UNCHANGED email
  /\ ToolReturns(<< <<"receptionist", "appointment_request_" \o action, "text">> >>,
                 [NoToolCall EXCEPT !.tool = "request_appointment",
                                    !.supplied = supplied, !.service = action,
                                    !.agent = "scheduler"])

\* Receptionist.leave_message, lines 192-204
LeaveMessage(supplied) ==
  /\ name' = RecordName(supplied)
  /\ UNCHANGED email
  /\ ToolReturns(<< <<"receptionist", "message_request", "text">> >>,
                 [NoToolCall EXCEPT !.tool = "leave_message",
                                    !.supplied = supplied, !.agent = "messenger"])

\* Receptionist.technical_question, lines 216-232
TechnicalQuestion(supplied) ==
  /\ name' = RecordName(supplied)
  /\ UNCHANGED email
  /\ ToolReturns(<< <<"receptionist", "technical_request", "text">> >>,
                 [NoToolCall EXCEPT !.tool = "technical_question",
                                    !.supplied = supplied,
                                    !.agent = "technical_expert"])

\* What a booking attempt runs into.  raises: where an exception leaves the
\* try block before a response is read ("conversion": the date conversion,
\* "not_found": the slug is no key of event_ids, "request": the HTTP request
\* or the decoding of its body).  Otherwise the decoded body: it is a dict or
\* not, it has a "statusCode" key or not, its text says the date is in the
\* past, the slot is not available, or neither; its "status" (None: no such
\* key) and the shape of its "error" member.
Outcome(raises, dict, statusCode, says, status, error) ==
  [raises |-> raises, dict |-> dict, statusCode |-> statusCode, says |-> says,
   status |-> status, error |-> error]

BookingOutcomes ==
  { Outcome("conversion", FALSE, FALSE, "other", None, "absent"),
    Outcome("not_found", FALSE, FALSE, "other", None, "absent"),
    Outcome("request", FALSE, FALSE, "other", None, "absent"),
    Outcome("no", TRUE, FALSE, "other", "success", "absent"),
    Outcome("no", TRUE, TRUE, "past", None, "absent"),
    Outcome("no", TRUE, TRUE, "not_available", None, "absent"),
    Outcome("no", TRUE, TRUE, "other", None, "absent"),
    Outcome("no", TRUE, TRUE, "other", "success", "absent"),
    Outcome("no", TRUE, FALSE, "not_available", "error", "not_available"),
    Outcome("no", TRUE, FALSE, "other", "error", "other"),
    Outcome("no", TRUE, FALSE, "other", "error", "absent"),
    Outcome("no", TRUE, FALSE, "other", "error", "not_a_dict"),
    Outcome("no", TRUE, FALSE, "other", "pending", "absent"),
    Outcome("no", TRUE, FALSE, "other", None, "absent"),
    Outcome("no", FALSE, FALSE, "other", None, "absent") }

\* Cal.com requests sent for the outcome: the first two exceptions are raised
\* before the POST (lines 284-288 and 178-179)
RequestsSent(o) == IF o.raises \in {"conversion", "not_found"} THEN 0 ELSE 1

\* the try block of schedule_with_french_time (lines 283-366) and of schedule
\* (411-448): the actions logged in it, whether an exception leaves it, and
\* what it returns
TryBooking(o) ==
  LET done(action) == [logged |-> <<action>>, raised |-> FALSE, ret |-> action]
      except == [logged |-> <<>>, raised |-> TRUE, ret |-> None]
  IN IF o.raises # "no" THEN except
     ELSE IF o.dict /\ o.statusCode
          THEN IF o.says = "past" THEN done("appointment_failed")
               ELSE IF o.says = "not_available" THEN done("appointment_unavailable")
               ELSE done("appointment_error")
     ELSE IF o.dict /\ o.status # None /\ o.status = "success"
          THEN done("appointment_scheduled")
     ELSE IF o.dict /\ o.status # None /\ o.status = "error"
          THEN \* response.get('error', {}).get('message', ...).lower()
               IF o.error = "not_a_dict" THEN except
               ELSE IF o.error = "not_available" THEN done("appointment_unavailable")
               ELSE done("appointment_error")
     ELSE done("appointment_failed")

\* the handler without its log_action call
HandlerLogsNothing(t) == t.logged

\* except Exception (lines 368-378 and 450-455): one appointment_error entry
\* more
HandlerLogs(t) ==
  IF t.raised THEN Append(t.logged, "appointment_error") ELSE t.logged

\* what the tool returns after a booking attempt
BookingReturn(o, t) ==
  IF ~t.raised THEN t.ret
  ELSE IF o.raises = "not_found" THEN "service_not_configured"
  ELSE "technical_error"

\* the log_action calls of a booking attempt, all made as "scheduler"
SchedulerLogs(types) == [j \in 1..Len(types) |-> <<"scheduler", types[j], "text">>]

\* f"{name.lower().replace(' ', '.')}@client-piscinik.com"
GeneratedEmail(n) ==
  CASE n = "Alice" -> "alice@client-piscinik.com"
    [] n = "Bob Martin" -> "bob.martin@client-piscinik.com"
    [] OTHER -> "@client-piscinik.com"

\* the name test moved after the email default
NameMissingIgnored(n) == FALSE

\* "if not userinfo.name" (line 273)
NameMissing(n) == Unset(n)

\* Scheduler.schedule_with_french_time, lines 272-378
ScheduleWithFrenchTime(o) ==
  LET call == [NoToolCall EXCEPT !.tool = "schedule_with_french_time",
                                 !.response = o]
  IN IF NameMissing(name)
     THEN /\ ToolReturns(<<>>, [call EXCEPT !.ret = "ask_name"])
          /\ UNCHANGED <<name, email>>
     ELSE LET t == TryBooking(o)
          IN /\ email' = IF Unset(email) THEN GeneratedEmail(name) ELSE email
             /\ UNCHANGED name
             /\ ToolReturns(SchedulerLogs(HandlerLogs(t)),
                            [call EXCEPT !.sent = RequestsSent(o),
                                         !.ret = BookingReturn(o, t)])

\* Scheduler.schedule, lines 404-455: the date comes in ISO form, nothing is
\* converted
Schedule(supplied, o) ==
  LET t == TryBooking(o)
  IN /\ o.raises # "conversion"
     /\ name' = supplied
     /\ email' = IF Unset(email) THEN GeneratedEmail(supplied) ELSE email
     /\ ToolReturns(SchedulerLogs(HandlerLogs(t)),
                    [NoToolCall EXCEPT !.tool = "schedule", !.supplied = supplied,
                                       !.response = o, !.sent = RequestsSent(o),
                                       !.ret = BookingReturn(o, t)])

\* the history of a session whose caller has been through reception n times
Welcomed(n) ==
  [j \in 1..n |-> [timestamp |-> j, agent |-> "receptionist",
                   action |-> "customer_welcomed", details |-> "text"]]

\* a session in reception, its history empty or as long as log_action lets
\* it grow, in a process whose engine has not been called
BookingInit ==
  /\ EngineStart
  /\ ~csv_file.exists /\ ~embeddings_file.exists /\ ~index_file.exists
  /\ api_key
  /\ UserInfoStart
  /\ \E n \in {0, HistoryLimit} :
       /\ actions = Welcomed(n)
       /\ now = n
  /\ last_agent = None
  /\ last_action_time = NoTime
  /\ logs = 0
  /\ last_tool = NoTool
  /\ ServicesStart

BookingNext ==
  \/ \E supplied \in SuppliedNames, action \in RequestedActions :
       RequestAppointment(supplied, action)
  \/ \E supplied \in SuppliedNames : LeaveMessage(supplied)
  \/ \E supplied \in SuppliedNames : TechnicalQuestion(supplied)
  \/ \E o \in BookingOutcomes : ScheduleWithFrenchTime(o)
  \/ \E supplied \in SuppliedNames, o \in BookingOutcomes : Schedule(supplied, o)

BookingSpec == BookingInit /\ [][BookingNext]_vars

(* ----------------------------- date tools ----------------------------- *)
\* calendar.isleap
IsLeap(y) == y % 4 = 0 /\ (y % 100 # 0 \/ y % 400 = 0)

\* the number of days of month m of year y
DaysInMonth(y, m) ==
  IF m = 2 THEN (IF IsLeap(y) THEN 29 ELSE 28)
  ELSE IF m \in {4, 6, 9, 11} THEN 30 ELSE 31

\* date(...) and date.replace(...) raise ValueError for a day the month
\* does not have
ValidDate(d) == d.day >= 1 /\ d.day <= DaysInMonth(d.year, d.month)

\* d + timedelta(days=1)
NextDay(d) ==
  IF d.day < DaysInMonth(d.year, d.month) THEN Date(d.year, d.month, d.day + 1)
  ELSE IF d.month < 12 THEN Date(d.year, d.month + 1, 1)
  ELSE Date(d.year + 1, 1, 1)

\* d + timedelta(days=n)
RECURSIVE AddDays(_, _)
AddDays(d, n) == IF n = 0 THEN d ELSE AddDays(NextDay(d), n - 1)

\* days of year y before its month m
RECURSIVE DaysBeforeMonth(_, _)
DaysBeforeMonth(y, m) ==
  IF m = 1 THEN 0 ELSE DaysBeforeMonth(y, m - 1) + DaysInMonth(y, m - 1)

\* date.toordinal(): 1 for 0001-01-01
ToOrdinal(d) ==
  LET y == d.year - 1
  IN y * 365 + (y \div 4) - (y \div 100) + (y \div 400)
     + DaysBeforeMonth(d.year, d.month) + d.day

\* date.weekday(): 0 is Monday
Weekday(d) == (ToOrdinal(d) + 6) % 7

\* f"{n:02d}"
Pad2(n) == IF n < 10 THEN "0" \o ToString(n) ELSE ToString(n)

\* date.isoformat(), for the four-digit years of the model
IsoFormat(d) == ToString(d.year) \o "-" \o Pad2(d.month) \o "-" \o Pad2(d.day)

\* sub in s
In(sub, s) ==
  \E j \in 1..(Len(s) - Len(sub) + 1) : SubSeq(s, j, j + Len(sub) - 1) = sub

\* str.lower() of one character, for the capitals the descriptions use
LowerChar(c) ==
  CASE c = "A" -> "a"
    [] c = "D" -> "d"
    [] c = "L" -> "l"
    [] c = "V" -> "v"
    [] OTHER -> c

\* str.lower()
RECURSIVE Lower(_)
Lower(s) ==
  IF Len(s) = 0 THEN s
  ELSE LowerChar(SubSeq(s, 1, 1)) \o Lower(SubSeq(s, 2, Len(s)))

\* the weekdays dict of lines 264-267, in its iteration order
weekdays ==
  <<"lundi", "mardi", "mercredi", "jeudi", "vendredi", "samedi", "dimanche">>

\* lines 282-299: the first weekday name found in the description, this
\* week's or next week's
WeekdayDate(d, date_lower) ==
  LET found == { n \in 1..Len(weekdays) : In(weekdays[n], date_lower) }
      is_next_week == In("prochain", date_lower) \/ In("prochaine", date_lower)
  IN IF found = {} THEN d
     ELSE LET found_day == (CHOOSE n \in found : \A k \in found : n <= k) - 1
              days_ahead == found_day - Weekday(d)
          IN IF is_next_week \/ days_ahead <= 0
             THEN AddDays(d, days_ahead + 7)
             ELSE AddDays(d, days_ahead)

\* lines 273-299: the if / elif chain over the relative expressions
RelativeDate(d, date_lower) ==
  IF In("demain", date_lower) THEN AddDays(d, 1)
  ELSE IF In("après-demain", date_lower) \/ In("aprés-demain", date_lower)
  THEN AddDays(d, 2)
  ELSE IF In("aujourd'hui", date_lower) \/ In("aujourd hui", date_lower) THEN d
  ELSE WeekdayDate(d, date_lower)

\* the digits, and the characters of the descriptions that are no word
\* characters for the regular expression
Digits == {"0", "1", "2", "3", "4", "5", "6", "7", "8", "9"}
NonWordChars == {" ", "-", "'", ":"}

\* \b at position j of s (between character j - 1 and character j)
WordBoundary(s, j) ==
  LET word(k) == k >= 1 /\ k <= Len(s) /\ SubSeq(s, k, k) \notin NonWordChars
  IN word(j - 1) # word(j)

\* int(text) for a text of digits
RECURSIVE IntOf(_)
IntOf(text) ==
  IF Len(text) = 0 THEN 0
  ELSE IntOf(SubSeq(text, 1, Len(text) - 1)) * 10
       + (CHOOSE n \in 0..9 : ToString(n) = SubSeq(text, Len(text), Len(text)))

\* re.findall(r'\b(\d{1,2})\b', s): the matches as <<position, length>>
DateNumbers(s) ==
  { m \in (1..Len(s)) \X {1, 2} :
      /\ m[1] + m[2] - 1 <= Len(s)
      /\ \A k \in m[1]..(m[1] + m[2] - 1) : SubSeq(s, k, k) \in Digits
      /\ WordBoundary(s, m[1])
      /\ WordBoundary(s, m[1] + m[2]) }

\* today.replace(month=today.month + 1, day=day_num), January of the next
\* year after December
NextMonthDay(d, day_num) ==
  IF d.month = 12 THEN Date(d.year + 1, 1, day_num)
  ELSE Date(d.year, d.month + 1, day_num)

\* lines 301-326: a number in the description replaces the date found so far.
\* The result is the date, or a ValueError nothing catches
NumericDate(d, target_date, date_description) ==
  LET ms == DateNumbers(date_description)
      ok(t) == [raised |-> FALSE, date |-> t]
  IN IF ms = {} THEN ok(target_date)
     ELSE LET first == CHOOSE m \in ms : \A o \in ms : m[1] <= o[1]
              day_num == IntOf(SubSeq(date_description, first[1],
                                      first[1] + first[2] - 1))
          IN IF day_num > d.day
             THEN IF ValidDate(Date(d.year, d.month, day_num))
                  THEN ok(Date(d.year, d.month, day_num))
                  ELSE IF ValidDate(NextMonthDay(d, day_num))
                       THEN ok(NextMonthDay(d, day_num))
                       ELSE [raised |-> TRUE, date |-> target_date]
             ELSE IF ValidDate(NextMonthDay(d, day_num))
                  THEN ok(NextMonthDay(d, day_num))
                  ELSE ok(AddDays(d, 7))

\* lines 328-350: the hour, in UTC
HourUtc(time_lower) ==
  IF In("8h", time_lower) \/ In("8:", time_lower) THEN 6
  ELSE IF In("9h", time_lower) \/ In("9:", time_lower) THEN 7
  ELSE IF In("10h", time_lower) \/ In("10:", time_lower) THEN 8
  ELSE IF In("11h", time_lower) \/ In("11:", time_lower) THEN 9
  ELSE IF In("14h", time_lower) \/ In("14:", time_lower) THEN 12
  ELSE IF In("15h", time_lower) \/ In("15:", time_lower) THEN 13
  ELSE IF In("16h", time_lower) \/ In("16:", time_lower) THEN 14
  ELSE IF In("matin", time_lower) THEN 8
  ELSE IF In("après-midi", time_lower) \/ In("aprés-midi", time_lower) THEN 12
  ELSE 9

\* convert_french_time_to_iso: the ISO date and time of the line 'Format
\* pour Cal.com', or the exception
convert_french_time_to_iso(d, date_description, time_description) ==
  LET target == NumericDate(d, RelativeDate(d, Lower(date_description)),
                            date_description)
      hour_utc == HourUtc(Lower(time_description))
  IN [date_description |-> date_description,
      time_description |-> time_description,
      raised |-> target.raised,
      iso_datetime |-> IF target.raised THEN None
                       ELSE IsoFormat(target.date) \o "T" \o Pad2(hour_utc)
                            \o ":00:00.000Z"]

\* get_current_datetime_info: the three dates it announces
get_current_datetime_info(d) ==
  [today |-> IsoFormat(d), demain |-> IsoFormat(AddDays(d, 1)),
   apres_demain |-> IsoFormat(AddDays(d, 2))]

\* the days the process may run on: mid-month, a Sunday, the ends of months
\* and of the year, the eve of a leap day
Todays ==
  { Date(2025, 6, 17), Date(2025, 6, 22), Date(2025, 1, 31), Date(2024, 2, 28),
    Date(2025, 12, 30), Date(2025, 12, 31) }

DateDescriptions ==
  { "demain", "Demain", "après-demain", "Après-demain", "aprés-demain",
    "aujourd'hui", "aujourd hui", "lundi", "vendredi prochain", "dimanche",
    "la semaine prochaine", "le 17 juin", "demain 15", "31", "0", "45" }

TimeDescriptions == { "10h", "14h30", "18h", "matin", "après-midi", "" }

ConvertFrenchTimeToIso(date_description, time_description) ==
  /\ conversion' =
       convert_french_time_to_iso(today, date_description, time_description)
  /\ UNCHANGED <<today, announced, exceptDate>>

GetCurrentDatetimeInfo ==
  /\ announced = NoDateInfo
  /\ announced' = get_current_datetime_info(today)
  /\ UNCHANGED <<today, conversion, exceptDate>>

\* a process on one of the days, its engine and its session not used
DateInit ==
  /\ EngineStart
  /\ ~csv_file.exists /\ ~embeddings_file.exists /\ ~index_file.exists
  /\ api_key
  /\ SessionStart
  /\ \E d \in Todays : DateStart(d)
  /\ TranscriptStart(TRUE, TRUE)
  /\ SetupStart({})

DateNext ==
  \/ \E date_description \in DateDescriptions,
        time_description \in TimeDescriptions :
       ConvertFrenchTimeToIso(date_description, time_description)
  \/ GetCurrentDatetimeInfo

DateSpec == DateInit /\ [][DateNext]_vars

(* ------------------------- transcript collector ----------------------- *)
\* a chat item: its role, its text_content (None: the item has no text) and
\* the parts of its content, each a str or not
Item(role, text_content, content) ==
  [role |-> role, text_content |-> text_content, content |-> content]

Part(is_str, text) == [is_str |-> is_str, text |-> text]

Items ==
  { Item("user", "Bonjour", <<>>),
    Item("user", "  ", <<>>),
    Item("assistant", None, <<Part(TRUE, "Bonjour"), Part(FALSE, "image"),
                              Part(TRUE, "Julie")>>),
    Item("assistant", None, <<>>) }

\* " ".join(str(c) for c in raw if isinstance(c, str))
RECURSIVE JoinStrings(_)
JoinStrings(raw) ==
  IF raw = <<>> THEN ""
  ELSE LET rest == JoinStrings(Tail(raw))
       IN IF ~Head(raw).is_str THEN rest
          ELSE IF \A j \in 2..Len(raw) : ~raw[j].is_str THEN Head(raw).text
          ELSE Head(raw).text \o " " \o rest

\* lines 47-53: the text of an item
TextOf(item) ==
  IF item.text_content # None /\ item.text_content # ""
  THEN item.text_content
  ELSE JoinStrings(item.content)

\* text.strip() is empty
Blank(text) == \A j \in 1..Len(text) : SubSeq(text, j, j) = " "

\* the tasks the loop may run next out of its ready queue
RunnableAny(q) == DOMAIN q

\* call_soon runs callbacks in the order they were registered: the task
\* created first takes its first step first
Runnable(q) == IF q = <<>> THEN {} ELSE {1}

\* q without its k-th element
Without(q, k) == SubSeq(q, 1, k - 1) \o SubSeq(q, k + 1, Len(q))

\* _on_msg_sync: the session emits conversation_item_added, the handler
\* creates the task and returns
OnMsgSync(item) ==
  /\ Len(emitted) < MaxEvents
  /\ emitted' = Append(emitted, item)
  /\ pending' = Append(pending, Len(emitted) + 1)
  /\ sends' = Append(sends, "none")
  /\ UNCHANGED <<webhook_url, make_webhook_url, messages, export,
                 exceptTranscript>>

\* _on_msg from its start to its first await (line 70) or to its end: the
\* message is appended, and the real-time send begins if MAKE_WEBHOOK_URL is
\* set and the text is not blank
OnMsg ==
  /\ \E k \in Runnable(pending) :
       LET evt == pending[k]
           text == TextOf(emitted[evt])
       IN /\ pending' = Without(pending, k)
          /\ messages' = Append(messages, [role |-> emitted[evt].role,
                                           text |-> text, event |-> evt])
          /\ sends' = [sends EXCEPT ![evt] =
                         IF make_webhook_url /\ ~Blank(text) THEN "sending"
                         ELSE "not_sent"]
  /\ UNCHANGED <<webhook_url, make_webhook_url, emitted, export,
                 exceptTranscript>>

\* how a real-time send ends: a 2xx status, another status, or an exception
\* (connection error, the 5 s timeout), which line 108 catches
SendOutcomes == {"delivered", "rejected", "error"}

\* _send_realtime_webhook returns, and with it the task of the event
SendRealtimeWebhook(evt, outcome) ==
  /\ evt \in DOMAIN sends
  /\ sends[evt] = "sending"
  /\ sends' = [sends EXCEPT ![evt] = outcome]
  /\ UNCHANGED <<webhook_url, make_webhook_url, emitted, pending, messages,
                 export, exceptTranscript>>

\* how the POST of the export ends
ExportOutcomes == {"exported", "rejected", "error"}

\* _export, the shutdown callback: skipped without TRANSCRIPTION_WEBHOOK_URL
\* or without messages, else one POST whose p_transcription is _messages
Export(outcome) ==
  /\ export = NoExport
  /\ export' =
       IF ~webhook_url \/ messages = <<>>
       THEN [state |-> "skipped", reason |-> IF ~webhook_url THEN "no_url"
                                             ELSE "no_messages",
             recorded |-> Len(messages), payload |-> <<>>]
       ELSE [state |-> outcome, reason |-> None, recorded |-> Len(messages),
             payload |-> messages]
  /\ UNCHANGED <<webhook_url, make_webhook_url, emitted, pending, messages,
                 sends, exceptTranscript>>

\* a session being transcribed, in a process whose engine, session tools and
\* date tools are not used
TranscriptInit ==
  /\ EngineStart
  /\ ~csv_file.exists /\ ~embeddings_file.exists /\ ~index_file.exists
  /\ api_key
  /\ SessionStart
  /\ DateStart(Date(2025, 6, 17))
  /\ \E url \in BOOLEAN, make_url \in BOOLEAN : TranscriptStart(url, make_url)
  /\ SetupStart({})

TranscriptNext ==
  \/ \E item \in Items : OnMsgSync(item)
  \/ OnMsg
  \/ \E evt \in 1..MaxEvents, outcome \in SendOutcomes :
       SendRealtimeWebhook(evt, outcome)
  \/ \E outcome \in ExportOutcomes : Export(outcome)

TranscriptSpec == TranscriptInit /\ [][TranscriptNext]_vars

(* --------------------------- Cal.com setup ---------------------------- *)
\* the id Cal.com gives an event type it creates for the k-th slug
NewId(k) == Len(services) + k

\* setup_event_types is called: it awaits search_schedule (line 135)
SetupEventTypes ==
  /\ setup_pc = "idle"
  /\ setup_pc' = "search_schedule"
  /\ UNCHANGED <<event_types, schedule_id, slug_index, event_ids, lookups,
                 creates, exceptSetup>>

\* what search_schedule does: it returns the id, returns None, or raises
ScheduleLookups == {"found", "absent", "raises"}

\* lines 135-140: search_schedule returns
SearchSchedule(outcome) ==
  /\ setup_pc = "search_schedule"
  /\ setup_pc' = CASE outcome = "found" -> "get_event_id"
                   [] outcome = "absent" -> "create_schedule"
                   [] OTHER -> "raised_early"
  /\ schedule_id' = IF outcome = "found" THEN 1 ELSE 0
  /\ slug_index' = IF outcome = "found" THEN 1 ELSE 0
  /\ UNCHANGED <<event_types, event_ids, lookups, creates, exceptSetup>>

\* line 138: create_schedule returns the id or raises
CreateSchedule(created) ==
  /\ setup_pc = "create_schedule"
  /\ setup_pc' = IF created THEN "get_event_id" ELSE "raised_early"
  /\ schedule_id' = IF created THEN 2 ELSE 0
  /\ slug_index' = IF created THEN 1 ELSE 0
  /\ UNCHANGED <<event_types, event_ids, lookups, creates, exceptSetup>>

\* a handler that gives up on the remaining slugs
BreakAfterFailure(k) == Len(services) + 1

\* except Exception: continue (lines 168-171)
ContinueAfterFailure(k) == k + 1

\* lines 173-178 once the loop is over: raise on an empty mapping, else
\* return it
AfterLoop(ids) == IF ids = NoEventIds THEN "raised" ELSE "returned"

\* the loop goes on with slug k, or ends
LoopTo(k, ids) ==
  /\ slug_index' = k
  /\ setup_pc' = IF k <= Len(services) THEN "get_event_id" ELSE AfterLoop(ids)

\* what get_event_id does (lines 16-32): it returns the id of the event type
\* the account holds, returns None because the answer lists none or has
\* status 'error', or raises
EventLookups(k) ==
  (IF event_types[k] # 0 THEN {"found"} ELSE {"absent"})
    \cup {"error_status", "raises"}

\* line 155: get_event_id returns for the slug the loop is at
GetEventId(outcome) ==
  LET k == slug_index
  IN /\ setup_pc = "get_event_id"
     /\ outcome \in EventLookups(k)
     /\ lookups' = [lookups EXCEPT ![k] = outcome]
     /\ CASE outcome = "found" ->
               /\ event_ids' = [event_ids EXCEPT ![k] = event_types[k]]
               /\ LoopTo(slug_index + 1,
                         [event_ids EXCEPT ![k] = event_types[k]])
          [] outcome \in {"absent", "error_status"} ->
               /\ setup_pc' = "create_event_type"
               /\ UNCHANGED <<event_ids, slug_index>>
          [] OTHER ->
               /\ LoopTo(ContinueAfterFailure(slug_index), event_ids)
               /\ UNCHANGED event_ids
     /\ UNCHANGED <<event_types, schedule_id, creates, exceptSetup>>

\* lines 158-166: create_event_type returns the new id, or raises (status
\* other than 'success', or the request failed); Cal.com creates the type
\* in the first case, which it does only for a slug the account does not
\* hold yet (the lookup of a held slug may have answered 'error')
CreateEventType(created) ==
  LET k == slug_index
      ids == [event_ids EXCEPT ![k] = NewId(slug_index)]
  IN /\ setup_pc = "create_event_type"
     /\ created => event_types[k] = 0
     /\ creates' = [creates EXCEPT ![k] = IF created THEN "created"
                                             ELSE "raises"]
     /\ IF created
        THEN /\ event_types' = [event_types EXCEPT ![k] = NewId(slug_index)]
             /\ event_ids' = ids
             /\ LoopTo(slug_index + 1, ids)
        ELSE /\ LoopTo(ContinueAfterFailure(slug_index), event_ids)
             /\ UNCHANGED <<event_types, event_ids>>
     /\ UNCHANGED <<schedule_id, lookups, exceptSetup>>

\* a process about to set up an account that holds any of the event types
SetupInit ==
  /\ EngineStart
  /\ ~csv_file.exists /\ ~embeddings_file.exists /\ ~index_file.exists
  /\ api_key
  /\ SessionStart
  /\ DateStart(Date(2025, 6, 17))
  /\ TranscriptStart(TRUE, TRUE)
  /\ \E have \in SUBSET Slugs : SetupStart(have)

SetupNext ==
  \/ SetupEventTypes
  \/ \E outcome \in ScheduleLookups : SearchSchedule(outcome)
  \/ \E created \in BOOLEAN : CreateSchedule(created)
  \/ \E outcome \in {"found", "absent", "error_status", "raises"} :
       GetEventId(outcome)
  \/ \E created \in BOOLEAN : CreateEventType(created)

SetupSpec == SetupInit /\ [][SetupNext]_vars


(* ------------------------------ claims -------------------------------- *)
\* scores of a result list that clear the 0.5 threshold
ClearsThreshold(r) == r.score > Threshold
NoneClears(rs) == \A j \in 1..Len(rs) : ~ClearsThreshold(rs[j])

\* C1: get_answer never raises: whatever the files and the upstream calls
\* did, a completed get_answer returned the 'no information found' string,
\* the 'technical difficulty' string, or the text the generation call
\* returned.
C1_GetAnswerNeverRaises ==
  last.op = "get_answer" =>
    /\ last.ret.kind = "str"
    /\ \/ last.ret.str = NoInformationMsg
       \/ last.ret.str = TechnicalDifficultyMsg
       \/ /\ last.nGen = 1
          /\ last.failed = "none"
          /\ last.ret.str \in GenerationOutputs

\* a get_answer whose lazily triggered build failed has completed
C1_Witness ==
  /\ last.op = "get_answer"
  /\ last.failed = "build"
  /\ last.ret.kind = "str"

\* C2: the index build runs at most once per process lifetime: no two
\* builds overlap and no second build starts once one has started.
C2_BuildAtMostOnce ==
  /\ builds <= 1
  /\ Cardinality(building) <= 1

\* C3: whenever the chunk sequence is non-empty the index exists, has as
\* many vectors as there are chunks and position j holds the vector of
\* chunks[j].
C3_IndexMatchesChunks ==
  chunks # <<>> =>
    /\ index.exists
    /\ Len(index.vecs) = Len(chunks)
    /\ \A j \in 1..Len(chunks) :
         index.vecs[j] = normalize_L2(EmbeddingOf(chunks[j]))

\* C4: search never raises for an upstream failure during the call, the
\* embedding failure inside the lazily triggered build included: it
\* returns an empty list.
C4_SearchNeverRaisesOnUpstreamFailure ==
  (last.op = "search" /\ last.failed \in {"build", "query_embed", "index_lookup"}) =>
    last.ret = Returned(<<>>)

\* C5: get_answer returns the 'no information found' message exactly when
\* the retrieval step returned an empty result, and then no generation
\* request is made; a generation request is only ever issued over a
\* non-empty retrieval result.
C5_NoInformationIffEmptyRetrieval ==
  /\ last.op = "get_answer" =>
       /\ (last.ret = Answered(NoInformationMsg))
            <=> (last.search.kind = "list" /\ last.search.list = <<>>)
       /\ (last.ret = Answered(NoInformationMsg)) => last.nGen = 0
  /\ \A p \in Tasks : nGen[p] > 0 => relevant_chunks[p] # <<>>

\* a get_answer over an empty retrieval result has completed
C5_Witness ==
  /\ last.op = "get_answer"
  /\ last.search = Returned(<<>>)
  /\ last.ret = Answered(NoInformationMsg)

\* C6: when the retrieval result is non-empty and no chunk clears the
\* threshold, the generation request carries exactly the first retrieved
\* chunk, which has the highest score; every generation request carries a
\* non-empty context.
C6_FallbackToBestChunk ==
  /\ \A p \in Tasks :
       pc[p] = "generate" =>
         /\ context[p] # <<>>
         /\ NoneClears(relevant_chunks[p]) =>
              /\ context[p] = <<relevant_chunks[p][1].chunk>>
              /\ \A j \in 1..Len(relevant_chunks[p]) :
                   relevant_chunks[p][1].score >= relevant_chunks[p][j].score
  /\ (/\ last.op = "get_answer"
      /\ last.search.kind = "list"
      /\ last.search.list # <<>>
      /\ NoneClears(last.search.list)) =>
       /\ last.nGen = 1
       /\ last.context = <<last.search.list[1].chunk>>

\* a generation request is pending over several chunks none of which
\* clears the threshold
C6_Witness ==
  \E p \in Tasks :
    /\ pc[p] = "generate"
    /\ Len(relevant_chunks[p]) >= 2
    /\ NoneClears(relevant_chunks[p])

\* the context the claims expect: the chunks of rs that clear the
\* threshold, in order, a blank line between two of them
ExpectedContext(rs) ==
  LET above == SelectSeq(rs, ClearsThreshold)
  IN [j \in 1..(2 * Len(above) - 1) |->
        IF j % 2 = 1 THEN above[(j + 1) \div 2].chunk ELSE BlankLine]

\* C7: when at least one retrieved chunk scores above 0.5, the context of
\* the generation request is exactly the chunks above the threshold, in
\* ranked order, joined by a blank line.
C7_ContextIsChunksAboveThreshold ==
  \A p \in Tasks :
    (pc[p] = "generate" /\ ~NoneClears(relevant_chunks[p])) =>
      context[p] = ExpectedContext(relevant_chunks[p])

\* a generation request is pending over two chunks above the threshold and
\* one at exactly 0.5
C7_Witness ==
  \E p \in Tasks :
    /\ pc[p] = "generate"
    /\ Len(SelectSeq(relevant_chunks[p], ClearsThreshold)) >= 2
    /\ \E j \in 1..Len(relevant_chunks[p]) : relevant_chunks[p][j].score = Threshold

\* C8 as stated: when the query embedding or the index lookup fails,
\* get_answer returns the 'technical difficulty' message.
C8_RetrievalFailureGivesTechnicalDifficulty ==
  (last.op = "get_answer" /\ last.failed \in {"query_embed", "index_lookup"}) =>
    last.ret = Answered(TechnicalDifficultyMsg)

\* C8 amended: when the query embedding or the index lookup fails, search
\* returns an empty result and get_answer returns the 'no information
\* found' message without a generation request.
C8_RetrievalFailureGivesNoInformation ==
  (last.op = "get_answer" /\ last.failed \in {"query_embed", "index_lookup"}) =>
    /\ last.search = Returned(<<>>)
    /\ last.ret = Answered(NoInformationMsg)
    /\ last.nGen = 0

\* a get_answer whose query embedding request failed has completed
C8_Witness ==
  /\ last.op = "get_answer"
  /\ last.failed = "query_embed"
  /\ last.nEmbed >= 1

\* C9: when the generation request raises, get_answer returns the
\* 'technical difficulty' string and does not raise.
C9_GenerationFailureGivesTechnicalDifficulty ==
  (last.op = "get_answer" /\ last.failed = "generate") =>
    last.ret = Answered(TechnicalDifficultyMsg)

\* a get_answer whose generation request failed has completed
C9_Witness ==
  /\ last.op = "get_answer"
  /\ last.failed = "generate"
  /\ last.nGen = 1

\* C10: search on an engine with zero chunks (corpus file absent, or
\* present with zero rows) returns an empty result, does not raise and
\* issues no embedding request.
C10_EmptyCorpusSearchIsEmpty ==
  (last.op = "search" /\ (~csv_file.exists \/ csv_file.rows = <<>>)) =>
    /\ last.ret = Returned(<<>>)
    /\ last.nEmbed = 0

\* C11: Degraded self-heals lazily.  A call on the initialized engine that
\* finds no chunk and a corpus file starts a build in that very call; no
\* step starts a build while the corpus file is absent.
C11_DegradedSelfHeals ==
  [][/\ (calls' = calls + 1 /\ initialized /\ chunks = <<>> /\ csv_file.exists)
          => builds' = builds + 1
     /\ ~csv_file.exists => builds' = builds]_vars

\* an earlier call found the engine Degraded without corpus (empty result,
\* no embedding request); the corpus is there now and a build is running
C11_Witness ==
  /\ last.ret = Returned(<<>>)
  /\ last.nEmbed = 0
  /\ last.failed = "none"
  /\ csv_file.exists
  /\ builds = 1
  /\ building # {}

\* C12: when an artifact file was absent as initialize ran, the engine is
\* initialized without an index read from disk: an index it holds later was
\* made by a build of this process over every row of the corpus, and as
\* long as the corpus file is absent it is Degraded (no chunk, no index).
C12_MissingArtifactForcesBuild ==
  init_path = "missing" =>
    /\ initialized
    /\ index.exists =>
         /\ builds >= 1
         /\ chunks = csv_file.rows
         /\ Len(index.vecs) = Len(chunks)
         /\ \A j \in 1..Len(chunks) :
              index.vecs[j] = normalize_L2(EmbeddingOf(chunks[j]))
    /\ ~csv_file.exists => (chunks = <<>> /\ ~index.exists)

\* an artifact was absent at initialize and the engine is Loaded now
C12_Witness ==
  /\ init_path = "missing"
  /\ chunks # <<>>
  /\ index.exists

\* C13: a persisted index that fails to deserialize or whose dimension is
\* not 1536 forces a full rebuild before any result is returned: once a call
\* search has returned a list, a build was started if read_index raised, and
\* the engine does not hold an index of another dimension.
C13_BadIndexForcesRebuild ==
  last.search.kind = "list" =>
    /\ init_path = "corrupt" => builds >= 1
    /\ ~(index.exists /\ index.d # embedding_dim)

\* C14: a build that was interrupted before both artifacts were written is
\* not taken for a finished one: the process started next finds an artifact
\* missing when it initializes (and so builds again from scratch).
C14_InterruptedBuildIsNeverLoaded ==
  (interrupted /\ initialized) => init_path = "missing"

\* the engine holds chunks and a built index
Loaded == initialized /\ chunks # <<>> /\ index.exists

\* C15: once the engine is Loaded, no step of any search or get_answer
\* changes chunks, index, initialized or one of the three files, and none
\* starts a build, as long as the process is not restarted.
C15_LoadedIsFrozen ==
  [][(Loaded /\ initialized') =>
       /\ chunks' = chunks
       /\ index' = index
       /\ csv_file' = csv_file
       /\ embeddings_file' = embeddings_file
       /\ index_file' = index_file
       /\ builds' = builds]_vars

\* Loaded from the persisted files, one call has returned chunks and another
\* one is still running
C15_Witness ==
  /\ Loaded
  /\ builds = 0
  /\ last.search.list # <<>>
  /\ \E p \in Tasks : pc[p] = "generate"

\* C16: get_rag_system is an idempotent singleton: a process constructs at
\* most one instance, every caller holds the instance the module global
\* refers to, and that instance is initialized.
C16_SingletonInstance ==
  /\ instances <= 1
  /\ (rag_instance = 0) <=> (instances = 0)
  /\ \A p \in Tasks : rag[p] # 0 => (rag[p] = rag_instance /\ initialized)
  /\ last.rag # 0 => (last.rag = rag_instance /\ initialized)

\* two tasks hold the instance at once
C16_Witness ==
  /\ \E p, r \in Tasks : p # r /\ rag[p] # 0 /\ rag[r] # 0
  /\ instances = 1

\* task p's step ends the index lookup of its search without a failure
LookupReturns(p) ==
  /\ pc[p] = "query_embed"
  /\ \/ pc'[p] = "generate"
     \/ pc'[p] = "idle" /\ last'.task = p /\ last'.failed = "none"

\* the list search hands back in that step
SearchResult(p) ==
  IF pc'[p] = "generate" THEN relevant_chunks'[p] ELSE last'.search.list

\* C17: the list search returns is no longer than top_k nor than chunks,
\* and it is, in the order of the index lookup, the pair (chunks[pos], score)
\* of every entry of the lookup whose position lies in [0, len(chunks));
\* the other entries are dropped.
C17_ResultsFollowIndexOrder ==
  [][\A p \in Tasks : LookupReturns(p) =>
       \E raw \in FaissSearch(index, normalize_L2(EmbeddingOf(query[p])), top_k[p]) :
         LET valid == SelectSeq(raw, LAMBDA h : 0 <= h.idx /\ h.idx < Len(chunks))
             res == SearchResult(p)
         IN /\ Len(res) <= top_k[p]
            /\ Len(res) <= Len(chunks)
            /\ Len(res) = Len(valid)
            /\ \A j \in 1..Len(res) :
                 /\ res[j].chunk = chunks[valid[j].idx + 1]
                 /\ res[j].score = valid[j].score]_vars

\* a search for three results has returned over an index of fewer than
\* three vectors and yet more vectors than chunks: the lookup row held a
\* position past the chunks and padding, and both were dropped
C17_Witness ==
  /\ last.op = "search"
  /\ last.top_k = DefaultTopK
  /\ last.failed = "none"
  /\ Len(index.vecs) > Len(chunks)
  /\ Len(index.vecs) < DefaultTopK
  /\ Len(last.ret.list) = Len(chunks)
  /\ chunks # <<>>

\* the first position (1-based) of text t in chunks
PositionOf(t) == CHOOSE j \in 1..Len(chunks) :
                   chunks[j] = t /\ \A m \in 1..(j - 1) : chunks[m] # t

\* C18: the list a search returned is ordered by non-increasing score, and
\* of two neighbours of equal score the chunk at the lower position comes
\* first.
C18_TiesByLowerPosition ==
  LET res == last.search.list
  IN (last.failed = "none" /\ chunks # <<>>) =>
       \A j \in 1..(Len(res) - 1) :
         /\ res[j].score >= res[j + 1].score
         /\ res[j].score = res[j + 1].score =>
              PositionOf(res[j].chunk) <= PositionOf(res[j + 1].chunk)

\* batches a build over n chunks needs
BatchesFor(n) == (n + batch_size - 1) \div batch_size

\* C19: a build over n >= 1 chunks issues exactly ceil(n / 20) embedding
\* requests of at most 20 texts each, and sleeps once between every two
\* consecutive requests, never before the first nor after the last.  At
\* each point of the build the requests and sleeps so far are the ones of
\* the batches begun; when the build is over (the query is being embedded)
\* they are ceil(n / 20) and ceil(n / 20) - 1.
C19_BatchesAndPacing ==
  \A p \in Tasks :
    /\ pc[p] = "build_embed" =>
         /\ Len(batch[p]) >= 1
         /\ Len(batch[p]) <= batch_size
         /\ nEmbed[p] = BatchesFor(i[p]) + 1
         /\ nSleep[p] = nEmbed[p] - 1
         /\ nEmbed[p] <= BatchesFor(Len(chunks))
    /\ pc[p] = "build_sleep" =>
         /\ nSleep[p] = nEmbed[p]
         /\ nEmbed[p] < BatchesFor(Len(chunks))
    /\ (pc[p] = "query_embed" /\ nEmbed[p] > 1) =>
         /\ nEmbed[p] - 1 = BatchesFor(Len(chunks))
         /\ nSleep[p] = BatchesFor(Len(chunks)) - 1

\* the build over 45 chunks is over: three requests, two sleeps
C19_Witness ==
  \E p \in Tasks :
    /\ pc[p] = "query_embed"
    /\ Len(chunks) = LongCorpus
    /\ nEmbed[p] = 4
    /\ nSleep[p] = 2

UnitScores == {Cos100(n) : n \in 0..6}

\* C21: every vector the index holds after a build has unit length, and
\* every lookup is made with a unit query vector: each score a search
\* returns is the cosine of two unit vectors.
C21_VectorsAreNormalized ==
  /\ index.exists => \A j \in 1..Len(index.vecs) : index.vecs[j].mag = 1
  /\ \A j \in 1..Len(last.search.list) : last.search.list[j].score \in UnitScores
  /\ \A p \in Tasks : \A j \in 1..Len(relevant_chunks[p]) :
       relevant_chunks[p][j].score \in UnitScores

\* a build of this process has indexed a chunk whose raw embedding is not of
\* unit length, and a search with a query whose raw embedding is not of
\* unit length has returned it
C21_Witness ==
  /\ written
  /\ \E j \in 1..Len(chunks) : EmbeddingOf(chunks[j]).mag # 1
  /\ EmbeddingOf(last.query).mag # 1
  /\ last.failed = "none"
  /\ Len(last.search.list) >= 2

\* C22: a missing OPENAI_API_KEY is fatal at process start: a process without
\* it never accepts a call, so no call ever fails for the missing key.
C22_MissingCredentialIsFatalAtStart ==
  ~api_key => (calls = 0 /\ last = NoCall)

\* C23: the batches of a build are contiguous slices that cover chunks in
\* order without overlap, and their embeddings are concatenated in batch
\* order: while a build runs, the vectors gathered are those of the chunks
\* before the current batch and the batch starts where they end; after a
\* build of this process has finished, the vector at position j of the
\* index is the embedding of chunks[j], for every j.
C23_BatchesCoverChunksInOrder ==
  /\ \A p \in Tasks :
       /\ pc[p] = "build_embed" =>
            /\ Len(embeddings[p]) = i[p]
            /\ i[p] < Len(chunks)
            /\ batch[p] = SubSeq(chunks, i[p] + 1,
                                 IF i[p] + batch_size < Len(chunks)
                                 THEN i[p] + batch_size ELSE Len(chunks))
       /\ pc[p] = "build_sleep" => Len(embeddings[p]) = i[p] + batch_size
       /\ pc[p] \in {"build_embed", "build_sleep"} =>
            \A j \in 1..Len(embeddings[p]) :
              embeddings[p][j] = EmbeddingOf(chunks[j])
  /\ written =>
       /\ Len(index.vecs) = Len(chunks)
       /\ \A j \in 1..Len(chunks) :
            index.vecs[j] = [dir |-> TextDir(chunks[j]), mag |-> 1]

\* a build over the 45 chunks, three batches, has finished
C23_Witness ==
  /\ written
  /\ Len(chunks) = LongCorpus
  /\ index.exists

\* the engine as an aborted build leaves it: chunks read, no index, and no
\* build running
AfterAbortedBuild ==
  initialized /\ chunks # <<>> /\ ~index.exists /\ building = {}

\* C24: the engine recovers from a build aborted by an upstream failure:
\* the next call that finds it in that state attempts the build again (and
\* so can come to return a non-empty result).
C24_AbortedBuildIsRetried ==
  [][(AfterAbortedBuild /\ calls' = calls + 1) => builds' = builds + 1]_vars

\* C25: a get_answer that returns while another caller's build is still
\* running, over a corpus with rows and without any upstream failure in the
\* call, does not return the 'no information found' message.
C25_ConcurrentCallerIsServed ==
  (/\ last.op = "get_answer"
   /\ building # {}
   /\ csv_file.rows # <<>>
   /\ last.failed \notin {"build", "query_embed", "generate"}) =>
    last.ret # Answered(NoInformationMsg)

BlankAnswers == {NoContent, "", " "}

\* C27: technical_advice_rag never raises and never returns an empty or
\* blank answer: when get_rag_system or get_answer raised it returns its
\* fixed fallback for failures, when the answer was None, empty or blank it
\* returns its fixed fallback for blank answers, and otherwise it returns
\* the engine's answer unchanged.
C27_TechnicalAdviceNeverBlank ==
  last.op \in {"get_answer", "get_rag_system"} =>
    /\ last.advice \notin BlankAnswers
    /\ last.ret.kind = "raise" => last.advice = ExceptionFallbackMsg
    /\ (last.ret.kind = "str" /\ last.ret.str \in BlankAnswers) =>
         last.advice = BlankAnswerFallbackMsg
    /\ (last.ret.kind = "str" /\ last.ret.str \notin BlankAnswers) =>
         last.advice = last.ret.str

\* the generation request returned a blank text and technical_advice_rag
\* answered with its fallback
C27_Witness ==
  /\ last.op = "get_answer"
  /\ last.nGen = 1
  /\ last.ret.str = " "
  /\ last.advice = BlankAnswerFallbackMsg

\* C28: after any sequence of log_action calls (whatever the agent) and
\* Receptionist.on_enter hooks, the session history holds at most 10 entries.
C28_HistoryHoldsAtMostTen == Len(actions) <= HistoryLimit

\* the previous history followed by the new entry
Logged == Append(last_tool.before, last_tool.entry)

\* C29: right after log_action(agent, type, details) the new entry is the
\* last element of the history, last_agent is the agent, last_action_time is
\* the entry's timestamp, and the history is the last (at most 10) elements of
\* the previous list followed by the new entry, in their original order.
C29_LogActionKeepsTheLastTen ==
  last_tool.tool = "log_action" =>
    LET n == IF Len(Logged) < HistoryLimit THEN Len(Logged) ELSE HistoryLimit
    IN /\ last_tool.entry.action = last_tool.ret
       /\ Len(actions) = n
       /\ actions[n] = last_tool.entry
       /\ \A j \in 1..n : actions[j] = Logged[Len(Logged) - n + j]
       /\ last_agent = last_tool.entry.agent
       /\ last_action_time = last_tool.entry.timestamp

\* log_action has returned after finding a history longer than the limit
C29_Witness ==
  /\ last_tool.tool = "log_action"
  /\ Len(last_tool.before) > HistoryLimit
  /\ last_tool.entry.agent = "technical_expert"

\* actions that are about an appointment
AppointmentActions ==
  {"appointment_scheduled", "appointment_cancelled", "appointment_rescheduled",
   "appointment_failed", "appointment_error"}

\* the action of the most recent appointment entry of acts, None without one
LatestAppointmentAction(acts) ==
  LET hits == {j \in 1..Len(acts) : acts[j].action \in AppointmentActions}
  IN IF hits = {} THEN None
     ELSE acts[CHOOSE k \in hits : \A h \in hits : h <= k].action

\* C30: when the most recent appointment action of the session is
\* appointment_failed or appointment_error, greet_with_context returns the
\* greeting that acknowledges the failed attempt and offers to retry.
C30_GreetingReflectsLatestOutcome ==
  (/\ last_tool.tool = "greet_with_context"
   /\ LatestAppointmentAction(actions) \in {"appointment_failed", "appointment_error"})
    => last_tool.ret = RetryGreeting

\* the transfer tools with the agent each hands over to
TransferTarget ==
  [request_appointment |-> "scheduler", leave_message |-> "messenger",
   technical_question |-> "technical_expert"]

\* the request action each transfer tool logs
RequestActionOf(call) ==
  CASE call.tool = "request_appointment" -> "appointment_request_" \o call.service
    [] call.tool = "leave_message" -> "message_request"
    [] OTHER -> "technical_request"

\* the history is what the tool found plus exactly one new entry, the
\* oldest entries dropped beyond the limit
OneEntryAdded(call) ==
  LET m == Len(call.before)
      n == Len(actions)
  IN /\ n = (IF m + 1 < HistoryLimit THEN m + 1 ELSE HistoryLimit)
     /\ \A j \in 1..(n - 1) : actions[j] = call.before[m + 1 - n + j]
     /\ actions[n].action = call.logged[1]
     /\ actions[n].timestamp = now
     /\ \A j \in 1..(n - 1) : actions[j].timestamp < now

\* C31: after request_appointment, leave_message or technical_question the
\* recorded name is the previous one when one was set and the supplied one
\* otherwise, exactly one request action has been logged, and the tool has
\* returned its target agent.
C31_TransferKeepsRecordedName ==
  tool_call.tool \in DOMAIN TransferTarget =>
    /\ name = (IF tool_call.name \in {None, ""} THEN tool_call.supplied
               ELSE tool_call.name)
    /\ Len(tool_call.logged) = 1
    /\ tool_call.logged[1] = RequestActionOf(tool_call)
    /\ OneEntryAdded(tool_call)
    /\ actions[Len(actions)].agent = "receptionist"
    /\ tool_call.agent = TransferTarget[tool_call.tool]
    /\ email = tool_call.email

\* a transfer tool was given another name than the one on record
C31_Witness ==
  /\ tool_call.tool = "technical_question"
  /\ tool_call.name = "Alice"
  /\ tool_call.supplied = "Bob Martin"
  /\ Len(tool_call.before) = HistoryLimit

\* the two booking tools of the scheduler
BookingTools == {"schedule_with_french_time", "schedule"}

\* the Cal.com response of the call reported status 'success'
ReportedSuccess(call) ==
  /\ call.response.raises = "no"
  /\ call.response.dict
  /\ call.response.status = "success"

\* C32: every schedule_with_french_time or schedule call that attempts a
\* booking records exactly one action in the session history; the action is
\* appointment_scheduled only if the Cal.com response reported status
\* 'success', and a failure, unavailable or error action in every other case.
C32_BookingRecordsOneAction ==
  (tool_call.tool \in BookingTools /\ tool_call.ret # "ask_name") =>
    /\ Len(tool_call.logged) = 1
    /\ OneEntryAdded(tool_call)
    /\ actions[Len(actions)].agent = "scheduler"
    /\ last_agent = "scheduler"
    /\ tool_call.logged[1] \in
         {"appointment_scheduled", "appointment_failed",
          "appointment_unavailable", "appointment_error"}
    /\ tool_call.logged[1] = "appointment_scheduled" => ReportedSuccess(tool_call)
    /\ tool_call.sent <= 1

\* a booking whose error body could not be read ended in the exception
\* handler, on a history that was full
C32_Witness ==
  /\ tool_call.tool = "schedule_with_french_time"
  /\ tool_call.response.error = "not_a_dict"
  /\ tool_call.logged = <<"appointment_error">>
  /\ tool_call.sent = 1
  /\ Len(tool_call.before) = HistoryLimit

\* C33: when userinfo.name is not set, schedule_with_french_time returns the
\* request for the name and changes nothing: no Cal.com request, no generated
\* email, no entry in the session history.
C33_NoNameNoBooking ==
  (tool_call.tool = "schedule_with_french_time" /\ tool_call.name \in {None, ""}) =>
    /\ tool_call.ret = "ask_name"
    /\ tool_call.sent = 0
    /\ tool_call.logged = <<>>
    /\ actions = tool_call.before
    /\ name = tool_call.name
    /\ email = tool_call.email

\* schedule_with_french_time was called with no name and no email on record,
\* for a booking Cal.com would have accepted
C33_Witness ==
  /\ tool_call.tool = "schedule_with_french_time"
  /\ tool_call.name = None
  /\ tool_call.email = None
  /\ ReportedSuccess(tool_call)
  /\ tool_call.ret = "ask_name"

\* the date of an ISO date and time
DatePart(iso_datetime) == SubSeq(iso_datetime, 1, 10)

\* C34: convert_french_time_to_iso maps the relative expressions to the dates
\* get_current_datetime_info announces: 'demain' without 'après-demain' gives
\* today + 1 day, 'après-demain' gives today + 2 days, "aujourd'hui" gives
\* today.
C34_RelativeDatesAsAnnounced ==
  LET said == Lower(conversion.date_description)
      info == get_current_datetime_info(today)
      yields(day) == ~conversion.raised /\ DatePart(conversion.iso_datetime) = day
  IN conversion # NoConversion =>
       /\ In("après-demain", said) => yields(info.apres_demain)
       /\ (In("demain", said) /\ ~In("après-demain", said)) => yields(info.demain)
       /\ In("aujourd'hui", said) => yields(info.today)

\* the message _on_msg records for the event numbered evt
MessageOf(evt) ==
  [role |-> emitted[evt].role, text |-> TextOf(emitted[evt]), event |-> evt]

\* ms holds the messages of the first events, one each, in emission order
InEmissionOrder(ms) ==
  /\ Len(ms) <= Len(emitted)
  /\ \A j \in 1..Len(ms) : ms[j] = MessageOf(j)

\* C35: the message list holds every conversation_item_added event whose task
\* has started exactly once and in emission order, whatever the real-time
\* sends do; every other event is still in the ready queue; the shutdown
\* export carries the recorded messages in that order, and is skipped exactly
\* when no webhook URL is configured or no message was recorded.
C35_TranscriptInEmissionOrder ==
  /\ InEmissionOrder(messages)
  /\ Len(messages) + Len(pending) = Len(emitted)
  /\ \A j \in 1..Len(pending) : pending[j] = Len(messages) + j
  /\ export # NoExport =>
       /\ (export.state = "skipped") = (~webhook_url \/ export.recorded = 0)
       /\ export.state # "skipped" =>
            /\ InEmissionOrder(export.payload)
            /\ Len(export.payload) = export.recorded
            /\ export.payload = SubSeq(messages, 1, export.recorded)

\* all events recorded and exported, after one send failed and while an
\* earlier send was still in flight
C35_Witness ==
  /\ Len(messages) = MaxEvents
  /\ export.state = "exported"
  /\ Len(export.payload) = MaxEvents
  /\ sends[1] = "sending"
  /\ sends[MaxEvents] = "error"

\* the slugs whose lookup or creation succeeded
Succeeded ==
  { services[k] : k \in { j \in 1..Len(services) :
                            lookups[j] = "found" \/ creates[j] = "created" } }

\* C36: once setup_event_types holds a schedule id and ends, every slug was
\* looked up; the mapping it returns contains exactly the slugs whose lookup
\* or creation succeeded, each with its id; no event type the lookup found
\* was created again; and it raises instead of returning exactly when no
\* slug succeeded.
C36_MappingHoldsSucceededSlugs ==
  /\ \A k \in 1..Len(services) : lookups[k] = "found" => creates[k] = "none"
  /\ setup_pc \in {"returned", "raised"} =>
       /\ schedule_id # 0
       /\ \A k \in 1..Len(services) : lookups[k] # "none"
       /\ { services[k] : k \in { j \in 1..Len(services) : event_ids[j] # 0 } }
            = Succeeded
       /\ \A k \in 1..Len(services) :
            event_ids[k] # 0 => event_ids[k] = event_types[k]
       /\ (setup_pc = "raised") = (Succeeded = {})
       /\ (setup_pc = "returned") => event_ids # NoEventIds

\* a run that returned after the first lookup raised, the second slug's
\* creation failed, the third was found and the fourth created
C36_Witness ==
  /\ setup_pc = "returned"
  /\ lookups[1] = "raises"
  /\ creates[2] = "raises"
  /\ lookups[3] = "found"
  /\ creates[4] = "created"

====
